---- MODULE Spec2Model ----
(***************************************************************************)
(* The GitHub activity pipeline of tomzx/personal-automation:              *)
(*   Monitor  (src/others/github-monitor.py)       polls GitHub, diffs     *)
(*            against watermark files, publishes events;                    *)
(*   Handler  (src/others/github-event-handler.py) consumes the events,     *)
(*            maintains item directories, invokes the LLM.                  *)
(*                                                                         *)
(* One Monitor cycle (run_monitoring_cycle) is a sequence of steps, one     *)
(* action per function it calls; GitHub, the operator and the clock move    *)
(* between the steps.                                                       *)
(***************************************************************************)
EXTENDS Integers, Sequences, FiniteSets, TLC

VARIABLES
    clock,          \* wall clock, in half seconds (instant t is second t \div 2)
    gh,             \* GitHub: item -> [state, updated_at]
    tree,           \* the base directory: item -> marker files of its directory
    phase,          \* position of the Monitor inside run_monitoring_cycle
    flags,          \* the Monitor's --monitor-* switches (fixed for the run)
    args,           \* --dry-run and --active-only of the running cycle
    active_issues,  \* run_monitoring_cycle's local list (set at the active scan)
    active_prs,     \* run_monitoring_cycle's local list (set at the active scan)
    out,            \* publish_event calls of the step just taken, in order
    inbox,          \* the Handler's consumer: messages awaiting (re)delivery
    msgs,           \* main_async's msgs: the fetched batch, what is left of it
    handled,        \* the last call of message_handler and how it ended
    hcfg,           \* the Handler's command line and template directory
    hloop,          \* where the Handler's fetch loop is, and what it just logged
    interval,       \* main_async's args.interval, in half seconds (0: run once)
    cycle_start,    \* main_async's cycle_start: the clock when the cycle began
    sleep_until,    \* when the last asyncio.sleep of the interval loop ends
    argv,           \* the Monitor's command line as main() finds it
    exit_code       \* the Monitor's exit code, once it has exited

vars == <<clock, gh, tree, phase, flags, args, active_issues, active_prs, out,
          inbox, msgs, handled, hcfg, hloop, interval, cycle_start, sleep_until,
          argv, exit_code>>

hvars == <<inbox, msgs, handled, hcfg, hloop>>

\* the variables of the Monitor's interval loop
lvars == <<interval, cycle_start, sleep_until>>

\* the variables of the Monitor's main()
mvars == <<argv, exit_code>>

----------------------------------------------------------------------------
(* Bounds *)

\* the clock stops at this instant (half seconds)
MaxClock == 3

\* items per GraphQL page in the model (first: 100 in the source)
PageSize == 1

\* the first reading of the clock (half seconds): items on GitHub are older
StartClock == 1

\* the Handler's consumer holds at most this many unacknowledged messages
MaxInbox == 2

\* --batch-size in the model (default 10 in the source)
BatchSize == 2

\* the longest --interval of the model, in seconds
MaxInterval == 1

\* a duration string has at most this many parts ("1m2s" has two)
MaxParts == 2

\* the largest number written in a part of a duration string
MaxNum == 2

----------------------------------------------------------------------------
(* The universe: repositories and the items GitHub may hold in them *)

Repos == <<"acme/widget", "acme/gadget">>

Items ==
    { <<"acme/widget", 1>>, <<"acme/widget", 2>>, <<"acme/widget", 3>>, <<"acme/gadget", 4>> }

\* the kind GitHub knows for an item (issue and PR numbers share one space)
KindOf(i) ==
    IF i = <<"acme/widget", 2>> THEN "pr" ELSE "issue"

\* no item
NoItem == <<"", 0>>

RepoOf(i) == i[1]
NumberOf(i) == i[2]

Kinds == {"issue", "pr"}

----------------------------------------------------------------------------
(* Timestamps as the strings the code compares *)

\* A timestamp string "YYYY-MM-DDTHH:MM:SS<tail>": the zero-padded prefix is
\* the second, the tail is what follows it.
NoStamp == [sec |-> -1, tail |-> "none"]

\* ord() of the first character of the tail: '+' 43, '.' 46, 'Z' 90
TailRank(tail) ==
    CASE tail = "+00:00" -> 43
      [] tail = ".500000+00:00" -> 46
      [] tail = "Z" -> 90
      [] OTHER -> 0

\* Python's str > str on two timestamp strings (lexicographic)
StrGreater(a, b) ==
    \/ a.sec > b.sec
    \/ a.sec = b.sec /\ TailRank(a.tail) > TailRank(b.tail)

\* datetime.now(timezone.utc).isoformat(): the fraction is omitted when zero
isoformat(t) ==
    [sec |-> t \div 2,
     tail |-> IF t % 2 = 0 THEN "+00:00" ELSE ".500000+00:00"]

\* GraphQL DateTime: whole seconds, "Z"
GraphQLDateTime(s) == [sec |-> s, tail |-> "Z"]

\* the instant (in half seconds) a timestamp string denotes
InstantOf(st) ==
    2 * st.sec + (IF st.tail = ".500000+00:00" THEN 1 ELSE 0)

----------------------------------------------------------------------------
(* Python values *)

PyInt(n) == [py |-> "int", v |-> n]
PyStr(n) == [py |-> "str", v |-> n]

\* {**base, **over}: later keys win
DictMerge(base, over) ==
    [k \in (DOMAIN base) \cup (DOMAIN over) |->
        IF k \in DOMAIN over THEN over[k] ELSE base[k]]

----------------------------------------------------------------------------
(* State Store *)

NoDir ==
    [dir |-> FALSE, active |-> FALSE, type |-> "",
     last_checked |-> NoStamp,
     last_issue_comment_check |-> NoStamp,
     last_pr_comment_check |-> NoStamp]

\* get_last_checked: the file's content, None when it is missing
get_last_checked(t, i) == t[i].last_checked

\* save_last_checked: mkdir(parents, exist_ok) and write the timestamp
save_last_checked(d, timestamp) ==
    [d EXCEPT !.dir = TRUE, !.last_checked = timestamp]

\* get_type_from_file: "issue" or "pr" when the file holds one, None ("") otherwise
get_type_from_file(t, i) ==
    IF t[i].type \in Kinds THEN t[i].type ELSE ""

\* save_type_to_file: mkdir(parents, exist_ok) and write the type
save_type_to_file(d, type_value) ==
    [d EXCEPT !.dir = TRUE, !.type = type_value]

----------------------------------------------------------------------------
(* Sequences over items *)

RECURSIVE SortByNumber(_)
SortByNumber(S) ==
    IF S = {} THEN <<>>
    ELSE LET m == CHOOSE x \in S : \A y \in S : NumberOf(x) <= NumberOf(y)
         IN <<m>> \o SortByNumber(S \ {m})

RECURSIVE Flatten(_)
Flatten(ss) ==
    IF ss = <<>> THEN <<>> ELSE Head(ss) \o Flatten(Tail(ss))

Range(s) == { s[k] : k \in 1..Len(s) }

\* the items of one repository, in the order the loops visit them
ItemsOf(r, S) == SortByNumber({ i \in S : RepoOf(i) = r })

\* every item of S, repository by repository
InOrder(S) == Flatten([k \in 1..Len(Repos) |-> ItemsOf(Repos[k], S)])


----------------------------------------------------------------------------
(* State Store: comment watermarks *)

\* get_last_comment_check: .last_<check_type>_comment_check, None when missing
get_last_comment_check(t, i, check_type) ==
    IF check_type = "issue" THEN t[i].last_issue_comment_check
    ELSE t[i].last_pr_comment_check

\* save_last_comment_check: write_text without mkdir (an error when the
\* directory is missing is caught and logged)
save_last_comment_check(d, timestamp, check_type) ==
    IF ~d.dir THEN d
    ELSE IF check_type = "issue" THEN [d EXCEPT !.last_issue_comment_check = timestamp]
    ELSE [d EXCEPT !.last_pr_comment_check = timestamp]

\* get_repository_last_comment_check: the earliest watermark among every item
\* directory of the repository that has the file; None when none has
get_repository_last_comment_check(t, r, check_type) ==
    LET have == { get_last_comment_check(t, i, check_type) :
                    i \in { j \in Items : RepoOf(j) = r /\ t[j].dir
                              /\ get_last_comment_check(t, j, check_type) # NoStamp } }
    IN IF have = {} THEN NoStamp
       ELSE CHOOSE m \in have : \A x \in have : ~StrGreater(m, x)

----------------------------------------------------------------------------
(* Item Poller *)

\* who opened the item (author.login)
AuthorOf(i) == IF i = <<"acme/gadget", 4>> THEN "hubot" ELSE "octocat"

\* _parse_issue_node / _parse_pr_node: the fields of a node the pipeline reads
ParseNode(i) ==
    [type |-> KindOf(i),
     number |-> PyInt(NumberOf(i)),
     updated_at |-> GraphQLDateTime(gh[i].updated_at),
     author |-> AuthorOf(i)]

\* the open items of one kind in a repository, in GitHub's order
OpenOnGitHub(r, kind) ==
    ItemsOf(r, { i \in Items : gh[i].state = "open" /\ KindOf(i) = kind })

NumPages(r, kind) == (Len(OpenOnGitHub(r, kind)) + PageSize - 1) \div PageSize

\* A poll that fails: the GraphQL call for page pages + 1 of (repo, kind) raises
NoFault == [repo |-> "", kind |-> "", pages |-> 0]

PollFaults ==
    {NoFault} \cup
    { [repo |-> Repos[k], kind |-> kind, pages |-> p] :
        k \in 1..Len(Repos), kind \in Kinds, p \in 0..Cardinality(Items) }

\* a failure that would end the polls of every repository, not only its own
Fetched_AbortAll(r, kind, fault) ==
    IF fault.repo # "" /\ fault.kind = kind /\ fault.pages < NumPages(r, kind)
    THEN fault.pages
    ELSE NumPages(r, kind)

\* the pages of (r, kind) fetched before the loop of _fetch_paginated_items ends
Fetched(r, kind, fault) ==
    IF fault.repo = r /\ fault.kind = kind /\ fault.pages < NumPages(r, kind)
    THEN fault.pages
    ELSE NumPages(r, kind)

\* _fetch_paginated_items under get_open_issues(item_type = kind): the nodes
\* of the pages fetched before an error, all of them when there is none
get_open_issues(r, kind, fault) ==
    LET all == OpenOnGitHub(r, kind)
        n == Fetched(r, kind, fault) * PageSize
    IN { all[k] : k \in 1..(IF n < Len(all) THEN n ELSE Len(all)) }

\* get_open_issues, lines 377-380: the filter clause of the queries; no clause
\* (the empty string) without updated_since
NoFilter == [since |-> NoStamp]

FilterClause(updated_since) == [since |-> updated_since]

\* _build_issue_query, line 184: issues(first: 100, states: OPEN<after><filter>)
_build_issue_query(r, filter_clause) ==
    [connection |-> "issues", repository |-> r, states |-> "OPEN", filter |-> filter_clause]

\* _build_pr_query, line 224: pullRequests(first: 100, states: OPEN<after><filter>)
_build_pr_query(r, filter_clause) ==
    [connection |-> "pullRequests", repository |-> r, states |-> "OPEN",
     filter |-> filter_clause]

\* get_open_issues(repository, updated_since, item_type = kind), lines 384-405:
\* the query whose pages are fetched
OpenItemsQuery(r, kind, updated_since) ==
    IF kind = "issue" THEN _build_issue_query(r, FilterClause(updated_since))
    ELSE _build_pr_query(r, FilterClause(updated_since))

\* What GitHub makes of a query, given the items of the pages fetched: without
\* a filter clause all of them; issues(filterBy: {since}) keeps the issues
\* updated at or after since; pullRequests takes no filterBy argument, the
\* query is rejected, gh exits non-zero and _fetch_paginated_items (lines
\* 354-358) ends with no item
Answer(query, items) ==
    IF query.filter = NoFilter THEN items
    ELSE IF query.connection = "issues"
    THEN { i \in items : gh[i].updated_at >= query.filter.since.sec }
    ELSE {}

----------------------------------------------------------------------------
(* Event Publisher *)

\* one publish_event call about an item; ok: js.publish did not raise
Event(subject, about, data) ==
    [subject |-> subject, about |-> about, data |-> data, ok |-> TRUE]

\* the calls of a step with js.publish raising for the events of item bad
Publish(events, bad) ==
    [k \in 1..Len(events) |->
        IF events[k].about = bad THEN [events[k] EXCEPT !.ok = FALSE] ELSE events[k]]

PubFaults(events) == {NoItem} \cup { events[k].about : k \in 1..Len(events) }

----------------------------------------------------------------------------
(* Monitor: discovery *)

\* a discovery that would not write .type
DiscoverWrites_NoType(d, i, current_time, dry_run) ==
    IF d.dir \/ dry_run THEN d ELSE save_last_checked(d, current_time)

\* a discovery that would not look at the item directory
DiscoverEvents_Always(d, i, dry_run) ==
    IF dry_run THEN <<>>
    ELSE <<Event(IF ParseNode(i).type = "pr" THEN "github.pr.new" ELSE "github.issue.new",
                 i,
                 DictMerge([repository |-> RepoOf(i)], ParseNode(i)))>>

\* monitor_repositories, lines 885-906: the files written for a returned item
DiscoverWrites(d, i, current_time, dry_run) ==
    IF d.dir \/ dry_run THEN d
    ELSE save_type_to_file(save_last_checked(d, current_time), ParseNode(i).type)

\* monitor_repositories, lines 885-903: the event for a returned item
DiscoverEvents(d, i, dry_run) ==
    IF d.dir \/ dry_run THEN <<>>
    ELSE <<Event(IF ParseNode(i).type = "pr" THEN "github.pr.new" ELSE "github.issue.new",
                 i,
                 DictMerge([repository |-> RepoOf(i)], ParseNode(i)))>>

\* get_tracked_repositories: the repositories that have a directory
get_tracked_repositories(t) == { RepoOf(i) : i \in { j \in Items : t[j].dir } }

\* run_monitoring_cycle, lines 1324-1327: the repositories of the cycle are
\* those of --repositories, else those that have a directory
Tracked ==
    IF argv.repositories # {} THEN argv.repositories ELSE get_tracked_repositories(tree)

\* monitor_repositories(item_type = kind) over the repositories of the cycle:
\* line 873, get_open_issues(repository, updated_since, item_type)
monitor_repositories(t, kind, current_time, dry_run, fault, repositories, updated_since) ==
    LET found == UNION { Answer(OpenItemsQuery(r, kind, updated_since),
                                get_open_issues(r, kind, fault)) : r \in repositories }
        order == InOrder(found)
    IN [tree |-> [i \in Items |->
                    IF i \in found THEN DiscoverWrites(t[i], i, current_time, dry_run)
                    ELSE t[i]],
        out |-> Flatten([k \in 1..Len(order) |-> DiscoverEvents(t[order[k]], order[k], dry_run)])]

----------------------------------------------------------------------------
(* Monitor: active scan *)

\* a scan that would return every item directory
find_active_issues_All(t, active_only, repositories) ==
    { i \in Items : t[i].dir }

\* find_active_issues: item directories of the given repositories (with
\* .active when active_only)
find_active_issues(t, active_only, repositories) ==
    { i \in Items : RepoOf(i) \in repositories /\ t[i].dir /\ (active_only => t[i].active) }

\* is_pull_request: the cached type, else the `gh pr view` probe: "exit0" for a
\* pull request it could read, "nonzero" otherwise
is_pull_request(t, i, probe) ==
    IF get_type_from_file(t, i) # "" THEN get_type_from_file(t, i) = "pr"
    ELSE probe = "exit0"

\* a classification that would probe and write .type whatever the cache holds
ClassifyWrites_Reprobe(t, i, probe) ==
    save_type_to_file(t[i], IF probe = "exit0" THEN "pr" ELSE "issue")

\* is_pull_request, lines 764-766: the probe's answer is cached in .type
ClassifyWrites(t, i, probe) ==
    IF get_type_from_file(t, i) # "" THEN t[i]
    ELSE save_type_to_file(t[i], IF is_pull_request(t, i, probe) THEN "pr" ELSE "issue")

\* the items the scan has to probe
Probed(t, active_only) ==
    { i \in find_active_issues(t, active_only, Tracked) : get_type_from_file(t, i) = "" }

\* what the probe of item i answers when it runs undisturbed
GhPrView(i) == IF KindOf(i) = "pr" THEN "exit0" ELSE "nonzero"

----------------------------------------------------------------------------
(* Monitor: update / closed *)

\* an update test that is passed on the first observation only
has_update_FirstOnly(last_check, updated_at) ==
    last_check = NoStamp

\* has_update = last_check is None or (updated_at and updated_at > last_check)
has_update(last_check, updated_at) ==
    last_check = NoStamp \/ StrGreater(updated_at, last_check)

\* process_active_issues, lines 945-983: an active item found in the open set
OpenItemEvents(t, i, dry_run) ==
    IF has_update(get_last_checked(t, i), ParseNode(i).updated_at) /\ ~dry_run
    THEN <<Event(IF ParseNode(i).type = "pr" THEN "github.pr.updated"
                 ELSE "github.issue.updated",
                 i,
                 DictMerge([repository |-> RepoOf(i), number |-> PyStr(NumberOf(i))],
                           ParseNode(i)))>>
    ELSE <<>>

\* process_active_issues, lines 985-1006: an active item missing from the open set
ClosedItemEvents(t, i, dry_run) ==
    IF dry_run THEN <<>>
    ELSE <<Event(IF get_type_from_file(t, i) = "pr" THEN "github.pr.closed"
                 ELSE "github.issue.closed",
                 i,
                 [repository |-> RepoOf(i), number |-> PyStr(NumberOf(i))])>>

\* lines 937-939: a repository whose poll returned nothing is skipped
Skipped(open_items) == open_items = {}

\* an update / closed step that would announce each item it reports as new too
ProcessEvents_ThenNew(t, i, open_items, dry_run) ==
    IF Skipped(open_items) THEN <<>>
    ELSE (IF i \in open_items THEN OpenItemEvents(t, i, dry_run)
          ELSE ClosedItemEvents(t, i, dry_run))
         \o DiscoverEvents(NoDir, i, dry_run)

ProcessEvents(t, i, open_items, dry_run) ==
    IF Skipped(open_items) THEN <<>>
    ELSE IF i \in open_items THEN OpenItemEvents(t, i, dry_run)
    ELSE ClosedItemEvents(t, i, dry_run)

\* an update / closed step that would store the epoch, not the step's time
ProcessWrites_Epoch(d, open_items, current_time, dry_run) ==
    IF Skipped(open_items) \/ dry_run THEN d
    ELSE save_last_checked(d, isoformat(0))

\* an update / closed step that would take the .active file of what it processes
ProcessWrites_Deactivate(d, open_items, current_time, dry_run) ==
    IF Skipped(open_items) \/ dry_run THEN d
    ELSE [save_last_checked(d, current_time) EXCEPT !.active = FALSE]

\* an update / closed step that would leave an existing .last_checked alone
ProcessWrites_FirstOnly(d, open_items, current_time, dry_run) ==
    IF Skipped(open_items) \/ dry_run \/ d.last_checked # NoStamp THEN d
    ELSE save_last_checked(d, current_time)

\* lines 984 and 1007: .last_checked is written for every item processed
ProcessWrites(d, open_items, current_time, dry_run) ==
    IF Skipped(open_items) \/ dry_run THEN d
    ELSE save_last_checked(d, current_time)

\* process_active_issues(active, item_type = kind)
process_active_issues(t, active, kind, current_time, dry_run, fault) ==
    LET open_items(r) == get_open_issues(r, kind, fault)
        order == InOrder(active)
    IN [tree |-> [i \in Items |->
                    IF i \in active
                    THEN ProcessWrites(t[i], open_items(RepoOf(i)), current_time, dry_run)
                    ELSE t[i]],
        out |-> Flatten([k \in 1..Len(order) |->
                    ProcessEvents(t, order[k], open_items(RepoOf(order[k])), dry_run)])]

----------------------------------------------------------------------------
(* Comment Poller *)

\* _parse_comment_node: the fields of a comment the pipeline reads; a comment
\* is known by the second it was last updated
ParseComment(c) ==
    [id |-> c, updated_at |-> GraphQLDateTime(c), author |-> "octocat"]

\* newest first (orderBy UPDATED_AT DESC)
RECURSIVE NewestFirst(_)
NewestFirst(S) ==
    IF S = {} THEN <<>>
    ELSE LET m == CHOOSE x \in S : \A y \in S : x >= y
         IN <<m>> \o NewestFirst(S \ {m})

\* lines 1140-1147: comments with updatedAt <= updated_since are dropped
KeepComment(c, updated_since) ==
    updated_since = NoStamp \/ StrGreater(GraphQLDateTime(c), updated_since)

\* the server's filterBy.since on the issues connection (issues only)
ServerReturns(i, item_type, updated_since) ==
    \/ item_type # "issue"
    \/ updated_since = NoStamp
    \/ 2 * gh[i].updated_at >= InstantOf(updated_since)

\* get_all_repository_comments: number -> surviving comments, for the open
\* items that have any; {} when the query raises
get_all_repository_comments(r, item_type, updated_since, coms, ok) ==
    [i \in { j \in Range(OpenOnGitHub(r, item_type)) :
                /\ ok
                /\ ServerReturns(j, item_type, updated_since)
                /\ \E c \in coms[j] : KeepComment(c, updated_since) } |->
        NewestFirst({ c \in coms[i] : KeepComment(c, updated_since) })]

----------------------------------------------------------------------------
(* Monitor: comments *)

\* lines 1215-1219: a comment not newer than the item's own watermark is skipped
IsNewComment(c, item_last_check) ==
    item_last_check = NoStamp \/ StrGreater(GraphQLDateTime(c), item_last_check)

\* lines 1221-1225 (issues) and 1299-1303 (pull requests)
CommentEvent(i, c, kind) ==
    IF kind = "issue"
    THEN Event("github.issue.comment.new", i,
               DictMerge([repository |-> RepoOf(i), issue_number |-> PyStr(NumberOf(i))],
                         ParseComment(c)))
    ELSE Event("github.pr.comment.new", i,
               DictMerge([repository |-> RepoOf(i), number |-> PyStr(NumberOf(i))],
                         ParseComment(c)))

\* lines 1212-1231: the events for one active item of the repository
CommentEvents(t, i, all_comments, kind, dry_run) ==
    IF dry_run \/ i \notin DOMAIN all_comments THEN <<>>
    ELSE LET new == SelectSeq(all_comments[i],
                        LAMBDA c : IsNewComment(c, get_last_comment_check(t, i, kind)))
         IN [k \in 1..Len(new) |-> CommentEvent(i, new[k], kind)]

\* lines 1235-1238: every active item's watermark is set to the step's time
CommentWrites(d, current_time, kind, dry_run) ==
    IF dry_run THEN d ELSE save_last_comment_check(d, current_time, kind)

\* monitor_issue_comments / monitor_pr_comments (kind = check_type)
monitor_comments(t, active, kind, current_time, dry_run, coms, failing) ==
    LET all_comments(r) ==
            get_all_repository_comments(
                r, kind, get_repository_last_comment_check(t, r, kind), coms, r # failing)
        order == InOrder(active)
    IN [tree |-> [i \in Items |->
                    IF i \in active THEN CommentWrites(t[i], current_time, kind, dry_run)
                    ELSE t[i]],
        out |-> Flatten([k \in 1..Len(order) |->
                    CommentEvents(t, order[k], all_comments(RepoOf(order[k])), kind, dry_run)])]

----------------------------------------------------------------------------
(* The cycle: run_monitoring_cycle *)

Skip(t) == [tree |-> t, out |-> <<>>]

\* between cycles no command line is in force (the argparse defaults)
NoArgs == [dry_run |-> FALSE, active_only |-> TRUE]

ArgSets == [dry_run : BOOLEAN, active_only : BOOLEAN]

\* a poll fault that changes what the step's polls return
Effective(fault, issues_polled, prs_polled) ==
    \/ fault = NoFault
    \/ /\ fault.repo # ""
       /\ fault.pages < NumPages(fault.repo, fault.kind)
       /\ (fault.kind = "issue" => issues_polled)
       /\ (fault.kind = "pr" => prs_polled)

StartCycle ==
    /\ phase = "idle"
    /\ phase' = "discover"
    /\ args' \in ArgSets
    /\ out' = <<>>
    /\ UNCHANGED <<clock, gh, tree, flags, active_issues, active_prs>>
    /\ UNCHANGED hvars
    /\ UNCHANGED lvars
    /\ UNCHANGED mvars

\* lines 1335-1349: discovery of issues, then of pull requests
Discovery ==
    /\ phase = "discover"
    /\ phase' = "scan"
    /\ \E fault \in PollFaults :
        LET current_time == isoformat(clock)
            r1 == IF flags.monitor_issues
                  THEN monitor_repositories(tree, "issue", current_time, args.dry_run, fault,
                                            Tracked, argv.updated_since)
                  ELSE Skip(tree)
            r2 == IF flags.monitor_prs
                  THEN monitor_repositories(r1.tree, "pr", current_time, args.dry_run, fault,
                                            Tracked, argv.updated_since)
                  ELSE Skip(r1.tree)
        IN /\ Effective(fault, flags.monitor_issues, flags.monitor_prs)
           /\ tree' = r2.tree
           /\ \E bad \in PubFaults(r1.out \o r2.out) : out' = Publish(r1.out \o r2.out, bad)
    /\ UNCHANGED <<clock, gh, flags, args, active_issues, active_prs>>
    /\ UNCHANGED hvars
    /\ UNCHANGED lvars
    /\ UNCHANGED mvars

\* lines 1351-1374: the active scan and the split by kind; the probes of
\* `failed` exit non-zero although the item is a pull request
ActiveScan ==
    /\ phase = "scan"
    /\ phase' = "process"
    /\ \E failed \in SUBSET { i \in Probed(tree, args.active_only) : KindOf(i) = "pr" } :
        LET all_active_items == find_active_issues(tree, args.active_only, Tracked)
            probe(i) == IF i \in failed THEN "nonzero" ELSE GhPrView(i)
        IN /\ active_prs' =
                { i \in all_active_items : is_pull_request(tree, i, probe(i)) }
           /\ active_issues' =
                { i \in all_active_items : ~is_pull_request(tree, i, probe(i)) }
           /\ tree' = [i \in Items |->
                        IF i \in all_active_items
                        THEN ClassifyWrites(tree, i, probe(i))
                        ELSE tree[i]]
    /\ out' = <<>>
    /\ UNCHANGED <<clock, gh, flags, args>>
    /\ UNCHANGED hvars
    /\ UNCHANGED lvars
    /\ UNCHANGED mvars

\* lines 1376-1382: update / closed for the active issues, then the active PRs;
\* fault is what goes wrong with the step's polls
UpdateClosedStep(fault) ==
    /\ phase = "process"
    /\ phase' = "comments"
    /\ LET current_time == isoformat(clock)
           do_issues == flags.monitor_issues /\ active_issues # {}
           do_prs == flags.monitor_prs /\ active_prs # {}
           r1 == IF do_issues
                 THEN process_active_issues(tree, active_issues, "issue",
                                            current_time, args.dry_run, fault)
                 ELSE Skip(tree)
           r2 == IF do_prs
                 THEN process_active_issues(r1.tree, active_prs, "pr",
                                            current_time, args.dry_run, fault)
                 ELSE Skip(r1.tree)
       IN /\ Effective(fault, do_issues, do_prs)
          /\ tree' = r2.tree
          /\ \E bad \in PubFaults(r1.out \o r2.out) : out' = Publish(r1.out \o r2.out, bad)
    /\ UNCHANGED <<clock, gh, flags, args, active_issues, active_prs>>
    /\ UNCHANGED hvars
    /\ UNCHANGED lvars
    /\ UNCHANGED mvars

UpdateClosed == \E fault \in PollFaults : UpdateClosedStep(fault)

\* whether the comments step runs its two halves (lines 1384-1400)
DoIssueComments == flags.monitor_issue_comments /\ active_issues # {}
DoPrComments == flags.monitor_pr_comments /\ active_prs # {}

\* the comments the step's queries can meet: on open items the step asks about,
\* none newer than its item; every choice of them is a function item -> comments
Commentable ==
    { i \in Items :
        /\ gh[i].state = "open"
        /\ \/ DoIssueComments /\ i \in active_issues /\ KindOf(i) = "issue"
           \/ DoPrComments /\ i \in active_prs /\ KindOf(i) = "pr" }

CommentsNow ==
    { [i \in Items |-> { c \in 0..(MaxClock \div 2) : <<i, c>> \in S }] :
        S \in SUBSET { <<i, c>> \in Commentable \X (0..(MaxClock \div 2)) :
                            c <= gh[i].updated_at } }

\* lines 1384-1400: issue comments, then pull request comments; coms is what
\* GitHub holds, failing the repository whose comment query raises ("" for none)
CommentsStep(coms, failing) ==
    /\ phase = "comments"
    /\ phase' = "idle"
    /\ LET current_time == isoformat(clock)
           r1 == IF DoIssueComments
                 THEN monitor_comments(tree, active_issues, "issue",
                                       current_time, args.dry_run, coms, failing)
                 ELSE Skip(tree)
           r2 == IF DoPrComments
                 THEN monitor_comments(r1.tree, active_prs, "pr",
                                       current_time, args.dry_run, coms, failing)
                 ELSE Skip(r1.tree)
       IN /\ tree' = r2.tree
          /\ \E bad \in PubFaults(r1.out \o r2.out) : out' = Publish(r1.out \o r2.out, bad)
    /\ args' = NoArgs
    /\ active_issues' = {}
    /\ active_prs' = {}
    /\ UNCHANGED <<clock, gh, flags>>
    /\ UNCHANGED hvars
    /\ UNCHANGED lvars
    /\ UNCHANGED mvars

\* the repositories whose comment query the step can see fail
QueryFaults == {""} \cup { RepoOf(i) : i \in active_issues \cup active_prs }

Comments ==
    \E coms \in CommentsNow : \E failing \in QueryFaults : CommentsStep(coms, failing)

----------------------------------------------------------------------------
(* main(): the command line *)

\* the process has not exited
NoExit == -1

\* A duration string is a sequence of parts: a run of digits followed by a
\* unit letter, [num, unit], or text the pattern (\d+)([dhms]) does not match
\* (Junk, as "0x"); the empty sequence is the empty string.
Components == [num : 0..MaxNum, unit : {"m", "s"}]

Junk == [num |-> 0, unit |-> "x"]

DurationStrings ==
    UNION { [1..n -> Components \cup {Junk}] : n \in 0..MaxParts }

\* lines 107-116: the sum of the parts, with the units table for the units of
\* the model ('m': 60, 's': 1)
RECURSIVE TotalSeconds(_)
TotalSeconds(matches) ==
    IF matches = <<>> THEN 0
    ELSE matches[1].num * (IF matches[1].unit = "m" THEN 60 ELSE 1)
         + TotalSeconds(Tail(matches))

\* parse_duration: ok is FALSE when it raises ValueError (empty string, no
\* match, or text that is not consumed by the matches)
parse_duration(duration_str) ==
    LET matches == SelectSeq(duration_str, LAMBDA part : part \in Components)
    IN IF duration_str = <<>> THEN [ok |-> FALSE, seconds |-> 0]
       ELSE IF matches = <<>> THEN [ok |-> FALSE, seconds |-> 0]
       ELSE IF matches # duration_str THEN [ok |-> FALSE, seconds |-> 0]
       ELSE [ok |-> TRUE, seconds |-> TotalSeconds(matches)]

\* the command line of the Monitor's other runs: no --interval,
\* --repositories given, gh installed
DefaultArgv ==
    [interval |-> <<>>, repositories |-> Range(Repos), gh_installed |-> TRUE,
     updated_since |-> NoStamp]

\* main, lines 1531-1541: --interval is parsed when given (a ValueError exits
\* with code 1), then gh is looked for (exit code 1 when missing)
ParseArguments ==
    /\ phase = "main"
    /\ LET parsed == parse_duration(argv.interval)
       IN IF argv.interval # <<>> /\ ~parsed.ok
          THEN exit_code' = 1 /\ phase' = "exited" /\ UNCHANGED interval
          ELSE IF ~argv.gh_installed
          THEN /\ exit_code' = 1
               /\ phase' = "exited"
               /\ interval' = IF argv.interval = <<>> THEN 0 ELSE 2 * parsed.seconds
          ELSE /\ exit_code' = exit_code
               /\ phase' = "ready"
               /\ interval' = IF argv.interval = <<>> THEN 0 ELSE 2 * parsed.seconds
    /\ out' = <<>>
    /\ UNCHANGED <<clock, gh, tree, flags, args, active_issues, active_prs>>
    /\ UNCHANGED <<cycle_start, sleep_until, argv>>
    /\ UNCHANGED hvars

\* main_async line 1447 with run_monitoring_cycle lines 1323-1331: without
\* --interval the cycle is run once; it returns 1 at once when there is no
\* repository to track, and main_async goes on to 'return 0' (line 1461),
\* which main passes to sys.exit.  The connection to NATS (lines 1411-1419)
\* is taken to succeed.
CycleOnce ==
    /\ phase = "ready"
    /\ interval = 0
    /\ IF Tracked = {}
       THEN exit_code' = 0 /\ phase' = "exited"
       ELSE exit_code' = exit_code /\ phase' = "discover"
    /\ out' = <<>>
    /\ UNCHANGED <<clock, gh, tree, flags, args, active_issues, active_prs>>
    /\ UNCHANGED <<interval, cycle_start, sleep_until, argv>>
    /\ UNCHANGED hvars

\* main_async line 1461 and main lines 1545-1546: the cycle has returned,
\* main_async returns 0 and main exits with it
ReturnFromMain ==
    /\ phase = "idle"
    /\ interval = 0
    /\ exit_code = NoExit
    /\ exit_code' = 0
    /\ phase' = "exited"
    /\ out' = <<>>
    /\ UNCHANGED <<clock, gh, tree, flags, args, active_issues, active_prs>>
    /\ UNCHANGED <<interval, cycle_start, sleep_until, argv>>
    /\ UNCHANGED hvars

----------------------------------------------------------------------------
(* The interval loop: main_async, lines 1422-1447 *)

\* no cycle has begun, no sleep has been taken
NotStarted == -1

\* --interval as parse_duration returns it (whole seconds), in half seconds
Intervals == { 2 * seconds : seconds \in 1..MaxInterval }

\* an interval loop that would always wait for the whole interval
sleep_duration_Whole(elapsed_seconds) == interval

\* line 1437: sleep_duration = max(0, args.interval - elapsed_seconds)
sleep_duration(elapsed_seconds) ==
    IF interval - elapsed_seconds > 0 THEN interval - elapsed_seconds ELSE 0

\* lines 1426-1431: the first iteration reads the clock and calls the cycle
FirstCycle ==
    /\ interval > 0
    /\ phase = "idle"
    /\ cycle_start = NotStarted
    /\ phase' = "discover"
    /\ cycle_start' = clock
    /\ out' = <<>>
    /\ UNCHANGED <<clock, gh, tree, flags, args, active_issues, active_prs>>
    /\ UNCHANGED <<interval, sleep_until>>
    /\ UNCHANGED mvars
    /\ UNCHANGED hvars

\* lines 1433-1441: the cycle has returned with time to spare; the loop sleeps
SleepUntilNextCycle ==
    /\ interval > 0
    /\ phase = "idle"
    /\ cycle_start # NotStarted
    /\ sleep_duration(clock - cycle_start) > 0
    /\ phase' = "sleeping"
    /\ sleep_until' = clock + sleep_duration(clock - cycle_start)
    /\ out' = <<>>
    /\ UNCHANGED <<clock, gh, tree, flags, args, active_issues, active_prs>>
    /\ UNCHANGED <<interval, cycle_start>>
    /\ UNCHANGED mvars
    /\ UNCHANGED hvars

\* lines 1433-1443 and 1426-1431: the cycle took the interval or longer; the
\* loop goes round at once
StartNextCycleImmediately ==
    /\ interval > 0
    /\ phase = "idle"
    /\ cycle_start # NotStarted
    /\ sleep_duration(clock - cycle_start) = 0
    /\ phase' = "discover"
    /\ cycle_start' = clock
    /\ out' = <<>>
    /\ UNCHANGED <<clock, gh, tree, flags, args, active_issues, active_prs>>
    /\ UNCHANGED <<interval, sleep_until>>
    /\ UNCHANGED mvars
    /\ UNCHANGED hvars

\* lines 1441 and 1426-1431: asyncio.sleep returns, not before its time, and
\* the loop goes round
WakeUp ==
    /\ phase = "sleeping"
    /\ clock >= sleep_until
    /\ phase' = "discover"
    /\ cycle_start' = clock
    /\ out' = <<>>
    /\ UNCHANGED <<clock, gh, tree, flags, args, active_issues, active_prs>>
    /\ UNCHANGED <<interval, sleep_until>>
    /\ UNCHANGED mvars
    /\ UNCHANGED hvars

----------------------------------------------------------------------------
(* The environment *)

Tick ==
    /\ clock < MaxClock
    /\ clock' = clock + 1
    /\ out' = <<>>
    /\ UNCHANGED <<gh, tree, phase, flags, args, active_issues, active_prs>>
    /\ UNCHANGED hvars
    /\ UNCHANGED lvars
    /\ UNCHANGED mvars

\* an edit or a comment on GitHub bumps the item's updatedAt to the current second
GhUpdate(i) ==
    /\ gh[i].state = "open"
    /\ gh[i].updated_at # clock \div 2
    /\ gh' = [gh EXCEPT ![i].updated_at = clock \div 2]
    /\ out' = <<>>
    /\ UNCHANGED <<clock, tree, phase, flags, args, active_issues, active_prs>>
    /\ UNCHANGED hvars
    /\ UNCHANGED lvars
    /\ UNCHANGED mvars

GhClose(i) ==
    /\ gh[i].state = "open"
    /\ gh' = [gh EXCEPT ![i].state = "closed"]
    /\ out' = <<>>
    /\ UNCHANGED <<clock, tree, phase, flags, args, active_issues, active_prs>>
    /\ UNCHANGED hvars
    /\ UNCHANGED lvars
    /\ UNCHANGED mvars

GhReopen(i) ==
    /\ gh[i].state = "closed"
    /\ gh' = [gh EXCEPT ![i].state = "open", ![i].updated_at = clock \div 2]
    /\ out' = <<>>
    /\ UNCHANGED <<clock, tree, phase, flags, args, active_issues, active_prs>>
    /\ UNCHANGED hvars
    /\ UNCHANGED lvars
    /\ UNCHANGED mvars

\* the operator opts an item in: the directory (if missing) and .active
OperatorActivate(i) ==
    /\ gh[i].state # "absent"
    /\ ~tree[i].active
    /\ tree' = [tree EXCEPT ![i].dir = TRUE, ![i].active = TRUE]
    /\ out' = <<>>
    /\ UNCHANGED <<clock, gh, phase, flags, args, active_issues, active_prs>>
    /\ UNCHANGED hvars
    /\ UNCHANGED lvars
    /\ UNCHANGED mvars

\* remove_active_file (the Handler, on a closed event)
RemoveActive(i) ==
    /\ tree[i].active
    /\ tree' = [tree EXCEPT ![i].active = FALSE]
    /\ out' = <<>>
    /\ UNCHANGED <<clock, gh, phase, flags, args, active_issues, active_prs>>
    /\ UNCHANGED hvars
    /\ UNCHANGED lvars
    /\ UNCHANGED mvars

----------------------------------------------------------------------------
(* Handler *)

\* str(number) as create_issue_directory and remove_active_file apply it
str(x) == PyStr(x.v)

\* json.dumps(data).encode() of publish_event, and a payload that is not JSON
Wire(event) == [subject |-> event.subject, json |-> TRUE, data |-> event.data]
NotJson == [subject |-> "github.issue.new", json |-> FALSE, data |-> [garbage |-> TRUE]]

TemplateLevels == <<"repo", "owner_default", "default">>

NoTemplates == [repo |-> "missing", owner_default |-> "missing", default |-> "missing"]

\* a Handler that is not running (the Monitor's runs)
NoHandler ==
    [claude_available |-> FALSE, auto_confirm |-> TRUE, repository_pattern |-> "",
     skip_user_pattern |-> "", templates_dir |-> FALSE, templates |-> NoTemplates]

\* a search that goes from the most general level to the most specific
find_template_GeneralFirst(cfg, repository) ==
    IF ~cfg.templates_dir THEN ""
    ELSE IF cfg.templates.default # "missing" THEN "default"
    ELSE IF cfg.templates.owner_default # "missing" THEN "owner_default"
    ELSE IF cfg.templates.repo # "missing" /\ repository = "acme/widget" THEN "repo"
    ELSE ""

\* find_template: the first level of the hierarchy that has the file, "" for
\* None; the repository level of the model's templates belongs to acme/widget
find_template(cfg, repository) ==
    IF ~cfg.templates_dir THEN ""
    ELSE LET has(level) ==
                 /\ cfg.templates[level] # "missing"
                 /\ level = "repo" => repository = "acme/widget"
             found == { k \in 1..Len(TemplateLevels) : has(TemplateLevels[k]) }
         IN IF found = {} THEN ""
            ELSE TemplateLevels[CHOOSE k \in found : \A j \in found : k <= j]

\* invoke_claude: True for an empty template (nothing is run), else whether
\* the child could be spawned and exited with code 0
invoke_claude(cfg, template_path, llm_exit) ==
    IF cfg.templates[template_path] = "empty" THEN TRUE ELSE llm_exit = 0

\* what _invoke_claude_with_template did with the LLM
LlmOutcome(cfg, repository, llm_exit) ==
    IF ~cfg.claude_available THEN "unavailable"
    ELSE IF find_template(cfg, repository) = "" THEN "no_template"
    ELSE IF cfg.templates[find_template(cfg, repository)] = "empty" THEN "empty_template"
    ELSE IF invoke_claude(cfg, find_template(cfg, repository), llm_exit) THEN "succeeded"
    ELSE "failed"

\* the substrings of the model's names that its patterns are made of
SubstringsOf(s) ==
    CASE s = "acme/widget" -> {"acme/widget", "acme/", "widget"}
      [] s = "acme/gadget" -> {"acme/gadget", "acme/", "gadget"}
      [] s = "octocat" -> {"octocat", "octo"}
      [] OTHER -> {s}

\* re.Pattern.search for the literal patterns of the model: the pattern occurs
\* somewhere in the string; "" stands for no pattern
Search(pattern, s) == pattern \in SubstringsOf(s)

\* a Handler whose repository filter lets every repository through
should_process_repository_All(repository, repository_pattern) == TRUE

should_process_repository(repository, repository_pattern) ==
    repository_pattern = "" \/ Search(repository_pattern, repository)

\* should_process_user; pattern.search(None) raises TypeError
should_process_user(username, skip_user_pattern) ==
    skip_user_pattern = "" \/ ~Search(skip_user_pattern, username)

\* the item directory a handler works on
ItemDir(data) == <<data.repository, str(data.number).v>>

CreatesDirectory == {"github.issue.new", "github.pr.new"}
RemovesActive == {"github.issue.closed", "github.pr.closed"}
ReadsComment == {"github.issue.comment.new", "github.pr.comment.new"}
\* a dispatch chain that also takes a subject it has no branch for
Dispatched_Reopened ==
    CreatesDirectory \cup RemovesActive \cup ReadsComment
        \cup {"github.issue.updated", "github.pr.updated", "github.issue.process",
              "github.issue.reopened"}

\* the subjects message_handler's if/elif chain has a branch for (lines 474-493)
Dispatched ==
    CreatesDirectory \cup RemovesActive \cup ReadsComment
        \cup {"github.issue.updated", "github.pr.updated", "github.issue.process"}

\* remove_active_file's result: True when the .active file was there
remove_active_file(t, data) ==
    ItemDir(data) \in Items /\ t[ItemDir(data)].active

\* handlers of new events that make no directory
HandlerWrites_NoMkdir(t, subject, data) ==
    IF ItemDir(data) \in Items /\ subject \in RemovesActive
    THEN [t EXCEPT ![ItemDir(data)].active = FALSE]
    ELSE t

\* handlers of closed events that leave the .active file in place
HandlerWrites_KeepActive(t, subject, data) ==
    IF ItemDir(data) \in Items /\ subject \in CreatesDirectory
    THEN [t EXCEPT ![ItemDir(data)].dir = TRUE]
    ELSE t

\* EventHandler.handle_*: create_issue_directory / remove_active_file
HandlerWrites(t, subject, data) ==
    IF ItemDir(data) \notin Items THEN t
    ELSE IF subject \in CreatesDirectory THEN [t EXCEPT ![ItemDir(data)].dir = TRUE]
    ELSE IF subject \in RemovesActive THEN [t EXCEPT ![ItemDir(data)].active = FALSE]
    ELSE t

\* a Handler that treats a missing field like any other error
OnKeyError_Nak == "nak"

\* a Handler that gives up on a payload it cannot decode
OnJSONDecodeError_Term == "term"

\* the except clauses of message_handler (lines 499-507)
OnJSONDecodeError == "nak"
OnKeyError == "term"
\* an 'except Exception' clause that would only log
OnException_LogOnly == "none"

OnException == "nak"

\* no delivery handled yet
NoCall == [msg |-> NotJson, verdict |-> "none", llm |-> "none", removed |-> FALSE]

\* a delivery that ended before the dispatch to a handle_* coroutine
Call(msg, verdict, llm, t) ==
    [call |-> [msg |-> msg, verdict |-> verdict, llm |-> llm, removed |-> FALSE],
     tree |-> t]

\* a delivery that went through its handle_* coroutine; removed: a closed
\* event's handler found the .active file and removed it
Dispatch(cfg, t, msg, llm_exit) ==
    [call |-> [msg |-> msg, verdict |-> "ack",
               llm |-> LlmOutcome(cfg, msg.data.repository, llm_exit),
               removed |-> msg.subject \in RemovesActive /\ remove_active_file(t, msg.data)],
     tree |-> HandlerWrites(t, msg.subject, msg.data)]

\* message_handler for one delivery: the verdict (ack, nak, term), what became
\* of the LLM invocation ("filtered": dropped by a filter before the prompt,
\* "declined": the operator answered the prompt with 's'), and the tree it
\* leaves; key is the operator's answer to the confirmation prompt, llm_exit
\* the child's exit code (-1: not spawned)
message_handler(cfg, t, msg, key, llm_exit) ==
    IF ~msg.json THEN Call(msg, OnJSONDecodeError, "none", t)
    ELSE IF {"repository", "number"} \ DOMAIN msg.data # {}
    THEN Call(msg, OnKeyError, "none", t)
    ELSE IF ~should_process_repository(msg.data.repository, cfg.repository_pattern)
    THEN Call(msg, "ack", "filtered", t)
    ELSE IF cfg.skip_user_pattern # "" /\ "author" \notin DOMAIN msg.data
    THEN Call(msg, OnException, "none", t)
    ELSE IF cfg.skip_user_pattern # ""
            /\ ~should_process_user(msg.data.author, cfg.skip_user_pattern)
    THEN Call(msg, "ack", "filtered", t)
    ELSE IF ~cfg.auto_confirm /\ key = "ctrl_c"
    THEN Call(msg, "none", "interrupted", t)
    ELSE IF ~cfg.auto_confirm /\ key = "s"
    THEN Call(msg, "ack", "declined", t)
    ELSE IF msg.subject \notin Dispatched
    THEN Call(msg, "ack", "none", t)
    ELSE IF msg.subject \in ReadsComment /\ "comment" \notin DOMAIN msg.data
    THEN Call(msg, OnKeyError, "none", t)
    ELSE Dispatch(cfg, t, msg, llm_exit)

\* the events the Monitor's constructors build about an item, as messages
MessagesFor(i) ==
    { Wire(e) : e \in
        Range(DiscoverEvents(NoDir, i, FALSE))
        \cup Range(OpenItemEvents([j \in Items |-> NoDir], i, FALSE))
        \cup Range(ClosedItemEvents([j \in Items |-> [NoDir EXCEPT !.type = KindOf(i)]],
                                    i, FALSE))
        \cup {CommentEvent(i, 0, KindOf(i))} }

\* the items the Handler's stream carries events about
HandlerWorld == {<<"acme/widget", 2>>, <<"acme/gadget", 4>>}

\* an envelope that decodes and has no repository field
NoRepository ==
    [subject |-> "github.issue.updated", json |-> TRUE, data |-> [number |-> PyStr(4)]]

\* a well-formed envelope on a subject of the stream (github.>) that
\* message_handler has no branch for
Unrecognised ==
    [subject |-> "github.issue.reopened", json |-> TRUE,
     data |-> Wire(OpenItemEvents([j \in Items |-> NoDir], <<"acme/widget", 2>>, FALSE)[1]).data]

Messages ==
    {NotJson, NoRepository, Unrecognised} \cup UNION { MessagesFor(i) : i \in HandlerWorld }

\* exit codes of the LLM child; -1: it could not be spawned
LlmExits == {0, 1, -1}

\* the operator's answers to the confirmation prompt
Keys == {"enter", "s", "ctrl_c"}

\* the fetch loop of main_async (lines 595-606): at "fetch" it fetches and goes
\* through batches, at "backoff" it sleeps after a fetch error until wake, at
\* "closed" it has been left and the connection is closed; logged: the step
\* just taken printed "Error fetching messages"
Listening == [at |-> "fetch", logged |-> FALSE, wake |-> -1]

\* a message is published to the stream
Arrive(m) ==
    /\ Len(inbox) + Len(msgs) < MaxInbox
    /\ inbox' = Append(inbox, m)
    /\ handled' = NoCall
    /\ UNCHANGED <<clock, gh, tree, phase, flags, args, active_issues, active_prs, out,
                   msgs, hcfg, hloop>>
    /\ UNCHANGED lvars
    /\ UNCHANGED mvars

\* main_async, line 598: psub.fetch returns the oldest pending messages, at
\* most batch_size of them, once the previous batch has been gone through
Fetch ==
    /\ hloop.at = "fetch"
    /\ hloop' = Listening
    /\ msgs = <<>>
    /\ inbox # <<>>
    /\ \E n \in 1..BatchSize :
        /\ n <= Len(inbox)
        /\ msgs' = SubSeq(inbox, 1, n)
        /\ inbox' = SubSeq(inbox, n + 1, Len(inbox))
    /\ UNCHANGED <<clock, gh, tree, phase, flags, args, active_issues, active_prs, out,
                   handled, hcfg>>
    /\ UNCHANGED lvars
    /\ UNCHANGED mvars

\* main_async, lines 599-600: the next message of the batch goes through
\* message_handler; ack and term settle it, nak leaves it for redelivery.
\* KeyboardInterrupt (Ctrl-C at the prompt) passes every except clause of
\* message_handler and of the loop: the loop is left (lines 608-613), and the
\* messages of the batch that got no disposition stay with the consumer.
HandleStep(key, llm_exit) ==
    /\ hloop.at = "fetch"
    /\ msgs # <<>>
    /\ LET done == message_handler(hcfg, tree, Head(msgs), key, llm_exit)
       IN /\ handled' = done.call
          /\ tree' = done.tree
          /\ inbox' = IF done.call.verdict = "nak" THEN Append(inbox, Head(msgs))
                       ELSE IF done.call.verdict = "none" THEN inbox \o msgs
                       ELSE inbox
          /\ msgs' = IF done.call.verdict = "none" THEN <<>> ELSE Tail(msgs)
          /\ hloop' = IF done.call.verdict = "none"
                       THEN [Listening EXCEPT !.at = "closed"]
                       ELSE Listening
    /\ UNCHANGED <<clock, gh, phase, flags, args, active_issues, active_prs, out, hcfg>>
    /\ UNCHANGED lvars
    /\ UNCHANGED mvars

HandleMessage == \E key \in Keys : \E llm_exit \in LlmExits : HandleStep(key, llm_exit)

\* main_async, lines 601-602: psub.fetch found nothing within fetch_timeout and
\* raised TimeoutError; the loop goes round without a word
FetchTimeout ==
    /\ hloop.at = "fetch"
    /\ msgs = <<>>
    /\ inbox = <<>>
    /\ hloop' = Listening
    /\ handled' = NoCall
    /\ UNCHANGED <<clock, gh, tree, phase, flags, args, active_issues, active_prs, out,
                   inbox, msgs, hcfg>>
    /\ UNCHANGED lvars
    /\ UNCHANGED mvars

\* a fetch loop that would be left on a fetch error
OnFetchError_Stop == "closed"

\* where the 'except Exception' clause of the loop (lines 603-606) leaves it:
\* asleep, still inside 'while True'
OnFetchError == "backoff"

\* asyncio.sleep(1), line 606, in half seconds
BackoffPause == 2

\* main_async, lines 603-606: psub.fetch raised another error; it is printed
\* and the loop sleeps for one second
FetchError ==
    /\ hloop.at = "fetch"
    /\ msgs = <<>>
    /\ clock + BackoffPause <= MaxClock
    /\ hloop' = [at |-> OnFetchError, logged |-> TRUE, wake |-> clock + BackoffPause]
    /\ handled' = NoCall
    /\ UNCHANGED <<clock, gh, tree, phase, flags, args, active_issues, active_prs, out,
                   inbox, msgs, hcfg>>
    /\ UNCHANGED lvars
    /\ UNCHANGED mvars

\* line 606 returns: the sleep is over, the loop goes round to the next fetch
BackoffOver ==
    /\ hloop.at = "backoff"
    /\ clock >= hloop.wake
    /\ hloop' = Listening
    /\ UNCHANGED <<clock, gh, tree, phase, flags, args, active_issues, active_prs, out,
                   inbox, msgs, handled, hcfg>>
    /\ UNCHANGED lvars
    /\ UNCHANGED mvars

\* lines 608-615: Ctrl-C while the loop fetches or sleeps; the loop is left,
\* 'finally' closes the connection and what was fetched and not yet handled
\* stays with the consumer
Interrupt ==
    /\ hloop.at \in {"fetch", "backoff"}
    /\ hloop' = [Listening EXCEPT !.at = "closed"]
    /\ inbox' = inbox \o msgs
    /\ msgs' = <<>>
    /\ UNCHANGED <<clock, gh, tree, phase, flags, args, active_issues, active_prs, out,
                   handled, hcfg>>
    /\ UNCHANGED lvars
    /\ UNCHANGED mvars

----------------------------------------------------------------------------
(* Runs *)

AllOn ==
    [monitor_issues |-> TRUE, monitor_prs |-> TRUE,
     monitor_issue_comments |-> TRUE, monitor_pr_comments |-> TRUE]

ItemsOnly ==
    [monitor_issues |-> TRUE, monitor_prs |-> TRUE,
     monitor_issue_comments |-> FALSE, monitor_pr_comments |-> FALSE]

\* what GitHub holds when the Monitor starts, the Monitor's switches and its
\* --repositories
Scenarios ==
    { [world |-> {<<"acme/widget", 1>>}, flags |-> AllOn, repositories |-> Range(Repos)],
      [world |-> {<<"acme/widget", 2>>}, flags |-> AllOn, repositories |-> Range(Repos)],
      [world |-> {<<"acme/widget", 1>>, <<"acme/widget", 3>>}, flags |-> ItemsOnly,
       repositories |-> Range(Repos)],
      [world |-> {<<"acme/gadget", 4>>}, flags |-> AllOn, repositories |-> {"acme/widget"}] }

Init ==
    /\ clock = StartClock
    /\ \E s \in Scenarios :
        /\ gh = [i \in Items |->
                    [state |-> IF i \in s.world THEN "open" ELSE "absent", updated_at |-> 0]]
        /\ flags = s.flags
        /\ argv = [DefaultArgv EXCEPT !.repositories = s.repositories]
    /\ tree = [i \in Items |-> NoDir]
    /\ phase = "idle"
    /\ args = NoArgs
    /\ active_issues = {}
    /\ active_prs = {}
    /\ out = <<>>
    /\ inbox = <<>>
    /\ msgs = <<>>
    /\ handled = NoCall
    /\ hcfg = NoHandler
    /\ hloop = Listening
    /\ interval = 0
    /\ cycle_start = NotStarted
    /\ sleep_until = NotStarted
    /\ exit_code = NoExit

Next ==
    \/ StartCycle
    \/ Discovery
    \/ ActiveScan
    \/ UpdateClosed
    \/ Comments
    \/ Tick
    \/ \E i \in Items : GhUpdate(i)
    \/ \E i \in Items : GhClose(i)
    \/ \E i \in Items : GhReopen(i)
    \/ \E i \in Items : OperatorActivate(i)
    \/ \E i \in Items : RemoveActive(i)

Spec == Init /\ [][Next]_vars

----------------------------------------------------------------------------
(* Runs of the Monitor with --interval *)

IInit ==
    /\ clock = StartClock
    /\ gh = [i \in Items |->
                [state |-> IF i = <<"acme/widget", 1>> THEN "open" ELSE "absent",
                 updated_at |-> 0]]
    /\ flags = ItemsOnly
    /\ tree = [i \in Items |-> NoDir]
    /\ phase = "idle"
    /\ args = NoArgs
    /\ active_issues = {}
    /\ active_prs = {}
    /\ out = <<>>
    /\ inbox = <<>>
    /\ msgs = <<>>
    /\ handled = NoCall
    /\ hcfg = NoHandler
    /\ hloop = Listening
    /\ interval \in Intervals
    /\ cycle_start = NotStarted
    /\ sleep_until = NotStarted
    /\ argv = [DefaultArgv EXCEPT !.interval = <<[num |-> interval \div 2, unit |-> "s"]>>]
    /\ exit_code = NoExit

INext ==
    \/ FirstCycle
    \/ Discovery
    \/ ActiveScan
    \/ UpdateClosed
    \/ Comments
    \/ SleepUntilNextCycle
    \/ StartNextCycleImmediately
    \/ WakeUp
    \/ Tick
    \/ \E i \in Items : GhUpdate(i)
    \/ \E i \in Items : GhClose(i)
    \/ \E i \in Items : GhReopen(i)
    \/ \E i \in Items : OperatorActivate(i)
    \/ \E i \in Items : RemoveActive(i)

SpecInterval == IInit /\ [][INext]_vars

----------------------------------------------------------------------------
(* Runs of the Monitor's main() without --interval, or up to the interval loop *)

MInit ==
    /\ clock = StartClock
    /\ gh = [i \in Items |->
                [state |-> IF i = <<"acme/widget", 1>> THEN "open" ELSE "absent",
                 updated_at |-> 0]]
    /\ flags = ItemsOnly
    /\ tree \in { [i \in Items |-> NoDir],
                  [i \in Items |-> IF i = <<"acme/widget", 1>>
                                   THEN [NoDir EXCEPT !.dir = TRUE, !.active = TRUE]
                                   ELSE NoDir] }
    /\ phase = "main"
    /\ args = NoArgs
    /\ active_issues = {}
    /\ active_prs = {}
    /\ out = <<>>
    /\ inbox = <<>>
    /\ msgs = <<>>
    /\ handled = NoCall
    /\ hcfg = NoHandler
    /\ hloop = Listening
    /\ interval = 0
    /\ cycle_start = NotStarted
    /\ sleep_until = NotStarted
    /\ argv \in [interval : DurationStrings,
                  repositories : {{}, Range(Repos), {"acme/gadget"}},
                  gh_installed : BOOLEAN,
                  updated_since : {NoStamp}]
    /\ exit_code = NoExit

MNext ==
    \/ ParseArguments
    \/ CycleOnce
    \/ Discovery
    \/ ActiveScan
    \/ UpdateClosed
    \/ Comments
    \/ ReturnFromMain

SpecMain == MInit /\ [][MNext]_vars

----------------------------------------------------------------------------
(* Runs of the Monitor over two issues of one repository, comments only
   (--no-monitor-issues --no-monitor-prs --no-monitor-pr-comments) *)

BInit ==
    /\ clock = StartClock
    /\ gh = [i \in Items |->
                [state |-> IF i \in {<<"acme/widget", 1>>, <<"acme/widget", 3>>}
                           THEN "open" ELSE "absent",
                 updated_at |-> 0]]
    /\ flags = [monitor_issues |-> FALSE, monitor_prs |-> FALSE,
                monitor_issue_comments |-> TRUE, monitor_pr_comments |-> FALSE]
    /\ tree = [i \in Items |-> NoDir]
    /\ phase = "idle"
    /\ args = NoArgs
    /\ active_issues = {}
    /\ active_prs = {}
    /\ out = <<>>
    /\ inbox = <<>>
    /\ msgs = <<>>
    /\ handled = NoCall
    /\ hcfg = NoHandler
    /\ hloop = Listening
    /\ interval = 0
    /\ cycle_start = NotStarted
    /\ sleep_until = NotStarted
    /\ argv = DefaultArgv
    /\ exit_code = NoExit

BNext ==
    \/ StartCycle
    \/ Discovery
    \/ ActiveScan
    \/ UpdateClosed
    \/ Comments
    \/ Tick
    \/ \E i \in Items : GhUpdate(i)
    \/ \E i \in Items : OperatorActivate(i)

SpecBacklog == BInit /\ [][BNext]_vars

----------------------------------------------------------------------------
(* Runs of the Monitor over two items the operator has opted in before the
   Monitor's first run: acme/widget#1 is open, acme/widget#3 is already closed
   and stays closed. Nobody reopens an item or recreates .active; the Handler
   may remove .active. *)

CInit ==
    /\ clock = StartClock
    /\ gh = [i \in Items |->
                [state |-> IF i = <<"acme/widget", 1>> THEN "open"
                           ELSE IF i = <<"acme/widget", 3>> THEN "closed"
                           ELSE "absent",
                 updated_at |-> 0]]
    /\ flags = ItemsOnly
    /\ tree = [i \in Items |->
                  IF i \in {<<"acme/widget", 1>>, <<"acme/widget", 3>>}
                  THEN [NoDir EXCEPT !.dir = TRUE, !.active = TRUE] ELSE NoDir]
    /\ phase = "idle"
    /\ args = NoArgs
    /\ active_issues = {}
    /\ active_prs = {}
    /\ out = <<>>
    /\ inbox = <<>>
    /\ msgs = <<>>
    /\ handled = NoCall
    /\ hcfg = NoHandler
    /\ hloop = Listening
    /\ interval = 0
    /\ cycle_start = NotStarted
    /\ sleep_until = NotStarted
    /\ argv = DefaultArgv
    /\ exit_code = NoExit

CNext ==
    \/ StartCycle
    \/ Discovery
    \/ ActiveScan
    \/ UpdateClosed
    \/ Comments
    \/ Tick
    \/ \E i \in Items : GhClose(i)
    \/ \E i \in Items : RemoveActive(i)

SpecClosure == CInit /\ [][CNext]_vars

----------------------------------------------------------------------------
(* Runs of the Monitor with and without --updated-since over an issue and a
   pull request of one repository *)

SInit ==
    /\ clock = StartClock
    /\ gh = [i \in Items |->
                [state |-> IF i \in {<<"acme/widget", 1>>, <<"acme/widget", 2>>}
                           THEN "open" ELSE "absent",
                 updated_at |-> 0]]
    /\ flags = ItemsOnly
    /\ tree = [i \in Items |-> NoDir]
    /\ phase = "idle"
    /\ args = NoArgs
    /\ active_issues = {}
    /\ active_prs = {}
    /\ out = <<>>
    /\ inbox = <<>>
    /\ msgs = <<>>
    /\ handled = NoCall
    /\ hcfg = NoHandler
    /\ hloop = Listening
    /\ interval = 0
    /\ cycle_start = NotStarted
    /\ sleep_until = NotStarted
    /\ argv \in { [DefaultArgv EXCEPT !.updated_since = since] :
                    since \in {NoStamp, [sec |-> 1, tail |-> "Z"]} }
    /\ exit_code = NoExit

SNext ==
    \/ StartCycle
    \/ Discovery
    \/ ActiveScan
    \/ UpdateClosed
    \/ Comments
    \/ Tick
    \/ \E i \in Items : GhUpdate(i)

SpecSince == SInit /\ [][SNext]_vars

----------------------------------------------------------------------------
(* Runs of the Monitor over two repositories with one issue each, issues and
   their comments monitored (--no-monitor-prs --no-monitor-pr-comments) *)

RInit ==
    /\ clock = StartClock
    /\ gh = [i \in Items |->
                [state |-> IF i \in {<<"acme/widget", 1>>, <<"acme/gadget", 4>>}
                           THEN "open" ELSE "absent",
                 updated_at |-> 0]]
    /\ flags = [monitor_issues |-> TRUE, monitor_prs |-> FALSE,
                monitor_issue_comments |-> TRUE, monitor_pr_comments |-> FALSE]
    /\ tree = [i \in Items |-> NoDir]
    /\ phase = "idle"
    /\ args = NoArgs
    /\ active_issues = {}
    /\ active_prs = {}
    /\ out = <<>>
    /\ inbox = <<>>
    /\ msgs = <<>>
    /\ handled = NoCall
    /\ hcfg = NoHandler
    /\ hloop = Listening
    /\ interval = 0
    /\ cycle_start = NotStarted
    /\ sleep_until = NotStarted
    /\ argv = DefaultArgv
    /\ exit_code = NoExit

RNext ==
    \/ StartCycle
    \/ Discovery
    \/ ActiveScan
    \/ UpdateClosed
    \/ Comments
    \/ Tick
    \/ \E i \in Items : OperatorActivate(i)

SpecRepos == RInit /\ [][RNext]_vars

----------------------------------------------------------------------------
(* One run of the Monitor without --interval (a single cycle) over two issues
   of one repository, pull requests left out (--no-monitor-prs
   --no-monitor-pr-comments).  The operator has opted acme/widget#1 in; no
   timestamp has been written yet.  Time passes and issues are edited between
   the steps of the cycle. *)

OInit ==
    /\ clock = StartClock
    /\ gh = [i \in Items |->
                [state |-> IF i \in {<<"acme/widget", 1>>, <<"acme/widget", 3>>}
                           THEN "open" ELSE "absent",
                 updated_at |-> 0]]
    /\ flags = [monitor_issues |-> TRUE, monitor_prs |-> FALSE,
                monitor_issue_comments |-> TRUE, monitor_pr_comments |-> FALSE]
    /\ tree = [i \in Items |-> IF i = <<"acme/widget", 1>>
                               THEN [NoDir EXCEPT !.dir = TRUE, !.active = TRUE]
                               ELSE NoDir]
    /\ phase = "main"
    /\ args \in ArgSets
    /\ active_issues = {}
    /\ active_prs = {}
    /\ out = <<>>
    /\ inbox = <<>>
    /\ msgs = <<>>
    /\ handled = NoCall
    /\ hcfg = NoHandler
    /\ hloop = Listening
    /\ interval = 0
    /\ cycle_start = NotStarted
    /\ sleep_until = NotStarted
    /\ argv = DefaultArgv
    /\ exit_code = NoExit

ONext ==
    \/ ParseArguments
    \/ CycleOnce
    \/ Discovery
    \/ ActiveScan
    \/ UpdateClosed
    \/ Comments
    \/ ReturnFromMain
    \/ Tick
    \/ \E i \in Items : GhUpdate(i)

SpecOneRun == OInit /\ [][ONext]_vars

----------------------------------------------------------------------------
(* Runs of the Handler *)

TemplateTrees ==
    { NoTemplates,
      [NoTemplates EXCEPT !.default = "text"],
      [NoTemplates EXCEPT !.repo = "text"],
      [NoTemplates EXCEPT !.repo = "empty", !.default = "text"] }

Plain ==
    [claude_available |-> TRUE, auto_confirm |-> TRUE, repository_pattern |-> "",
     skip_user_pattern |-> "", templates_dir |-> TRUE,
     templates |-> [NoTemplates EXCEPT !.default = "text"]]

HandlerConfigs ==
    { [Plain EXCEPT !.claude_available = a, !.templates = t] :
        a \in BOOLEAN, t \in TemplateTrees }
    \cup { [Plain EXCEPT !.repository_pattern = rp, !.skip_user_pattern = sp,
                           !.auto_confirm = ac] :
                rp \in {"", "widget"}, sp \in {"", "octo"}, ac \in BOOLEAN }
    \cup { [Plain EXCEPT !.templates_dir = FALSE] }

HInit ==
    /\ clock = StartClock
    /\ gh = [i \in Items |->
                [state |-> IF i \in HandlerWorld THEN "open" ELSE "absent", updated_at |-> 0]]
    /\ tree = [i \in Items |-> NoDir]
    /\ phase = "idle"
    /\ flags = AllOn
    /\ args = NoArgs
    /\ active_issues = {}
    /\ active_prs = {}
    /\ out = <<>>
    /\ inbox = <<>>
    /\ msgs = <<>>
    /\ handled = NoCall
    /\ hcfg \in HandlerConfigs
    /\ hloop = Listening
    /\ interval = 0
    /\ cycle_start = NotStarted
    /\ sleep_until = NotStarted
    /\ argv = DefaultArgv
    /\ exit_code = NoExit

HNext ==
    \/ \E m \in Messages : Arrive(m)
    \/ Fetch
    \/ HandleMessage
    \/ \E i \in Items : OperatorActivate(i)

SpecHandler == HInit /\ [][HNext]_vars

----------------------------------------------------------------------------
(* Runs of a Handler that filters nothing and asks nothing, over every
   template tree: each of the three levels holds no file, an empty file or a
   template; the stream carries the updated events of a pull request of
   acme/widget and of an issue of acme/gadget. *)

TemplateConfigs ==
    LET TemplateStates == {"missing", "empty", "text"}
    IN { [Plain EXCEPT !.templates = t, !.templates_dir = d] :
            t \in [repo : TemplateStates, owner_default : TemplateStates,
                    default : TemplateStates],
            d \in BOOLEAN }

UpdatedMessages ==
    { Wire(OpenItemEvents([j \in Items |-> NoDir], i, FALSE)[1]) : i \in HandlerWorld }

TInit ==
    /\ clock = StartClock
    /\ gh = [i \in Items |->
                [state |-> IF i \in HandlerWorld THEN "open" ELSE "absent", updated_at |-> 0]]
    /\ tree = [i \in Items |-> NoDir]
    /\ phase = "idle"
    /\ flags = AllOn
    /\ args = NoArgs
    /\ active_issues = {}
    /\ active_prs = {}
    /\ out = <<>>
    /\ inbox = <<>>
    /\ msgs = <<>>
    /\ handled = NoCall
    /\ hcfg \in TemplateConfigs
    /\ hloop = Listening
    /\ interval = 0
    /\ cycle_start = NotStarted
    /\ sleep_until = NotStarted
    /\ argv = DefaultArgv
    /\ exit_code = NoExit

TNext ==
    \/ \E m \in UpdatedMessages : Arrive(m)
    \/ Fetch
    \/ HandleMessage

SpecTemplates == TInit /\ [][TNext]_vars

----------------------------------------------------------------------------
(* Runs of the Handler's fetch loop: fetches that time out or fail, the
   operator's Ctrl-C; time passes, and a sleep that is over returns *)

LInit ==
    /\ clock = StartClock
    /\ gh = [i \in Items |->
                [state |-> IF i \in HandlerWorld THEN "open" ELSE "absent", updated_at |-> 0]]
    /\ tree = [i \in Items |-> NoDir]
    /\ phase = "idle"
    /\ flags = AllOn
    /\ args = NoArgs
    /\ active_issues = {}
    /\ active_prs = {}
    /\ out = <<>>
    /\ inbox = <<>>
    /\ msgs = <<>>
    /\ handled = NoCall
    /\ hcfg \in {Plain, [Plain EXCEPT !.auto_confirm = FALSE]}
    /\ hloop = Listening
    /\ interval = 0
    /\ cycle_start = NotStarted
    /\ sleep_until = NotStarted
    /\ argv = DefaultArgv
    /\ exit_code = NoExit

LNext ==
    \/ \E m \in UpdatedMessages : Arrive(m)
    \/ Fetch
    \/ HandleMessage
    \/ FetchTimeout
    \/ FetchError
    \/ BackoffOver
    \/ Interrupt
    \/ Tick

SpecFetchLoop == LInit /\ [][LNext]_vars /\ WF_vars(BackoffOver) /\ WF_vars(Tick)

----------------------------------------------------------------------------
(* Runs of the Monitor and the Handler on one base directory *)

\* the stream carries the events of the one item GitHub holds
PipelineItem == <<"acme/widget", 2>>

PInit ==
    /\ clock = StartClock
    /\ gh = [i \in Items |->
                [state |-> IF i = PipelineItem THEN "open" ELSE "absent", updated_at |-> 0]]
    /\ flags = AllOn
    /\ tree = [i \in Items |-> NoDir]
    /\ phase = "idle"
    /\ args = NoArgs
    /\ active_issues = {}
    /\ active_prs = {}
    /\ out = <<>>
    /\ inbox = <<>>
    /\ msgs = <<>>
    /\ handled = NoCall
    /\ hcfg = Plain
    /\ hloop = Listening
    /\ interval = 0
    /\ cycle_start = NotStarted
    /\ sleep_until = NotStarted
    /\ argv = DefaultArgv
    /\ exit_code = NoExit

PNext ==
    \/ StartCycle
    \/ Discovery
    \/ ActiveScan
    \/ UpdateClosed
    \/ Comments
    \/ \E m \in MessagesFor(PipelineItem) : Arrive(m)
    \/ Fetch
    \/ HandleMessage
    \/ OperatorActivate(PipelineItem)
    \/ GhClose(PipelineItem)

SpecPipeline == PInit /\ [][PNext]_vars

----------------------------------------------------------------------------
(* Properties of the Monitor *)

Updated == {"github.issue.updated", "github.pr.updated"}
New == {"github.issue.new", "github.pr.new"}
Closed == {"github.issue.closed", "github.pr.closed"}

\* the items the update / closed step processes, with the kind it polls for each
ProcessedAs(kind) ==
    IF kind = "issue" THEN (IF flags.monitor_issues THEN active_issues ELSE {})
    ELSE (IF flags.monitor_prs THEN active_prs ELSE {})

\* the events of a sequence about item i with a subject in subjects
About(events, i, subjects) ==
    { k \in 1..Len(events) : events[k].about = i /\ events[k].subject \in subjects }

Watermarks == {"last_checked", "last_issue_comment_check", "last_pr_comment_check"}

\* C1 (update gating): the update / closed step publishes no updated event for an
\* item whose .last_checked exists and whose updated_at is no later than it.
C1_UpdateGating ==
    [][(phase = "process" /\ phase' = "comments") =>
        \A k \in 1..Len(out') :
            (out'[k].subject \in Updated /\ out'[k].ok) =>
                \/ get_last_checked(tree, out'[k].about) = NoStamp
                \/ 2 * gh[out'[k].about].updated_at
                      > InstantOf(get_last_checked(tree, out'[k].about))]_vars

\* C2 (publish failures): when the publish of an event about an item fails,
\* the step leaves the item's directory, .type and watermark files as they were.
C2_PublishFailureKeepsFiles ==
    [][\A k \in 1..Len(out') :
        ~out'[k].ok => tree'[out'[k].about] = tree[out'[k].about]]_vars

\* C3 (failed comment query): when the comment query of a repository fails in
\* the comments step, the comment watermarks of the repository's active items
\* are unchanged by the step.
C3_FailedQueryKeepsWatermarks ==
    [][\A coms \in CommentsNow : \A failing \in QueryFaults \ {""} :
        CommentsStep(coms, failing) =>
            \A i \in active_issues \cup active_prs :
                RepoOf(i) = failing =>
                    /\ tree'[i].last_issue_comment_check = tree[i].last_issue_comment_check
                    /\ tree'[i].last_pr_comment_check = tree[i].last_pr_comment_check]_vars

\* C4 (closure): in a cycle that is not a dry run and whose polls all succeed,
\* every active item absent from the open set the update / closed step got for
\* its repository gets exactly one closed event, of the kind cached in .type;
\* also when the poll returned no item at all.
C4_Closure ==
    [][(UpdateClosedStep(NoFault) /\ ~args.dry_run) =>
            \A kind \in Kinds : \A i \in ProcessedAs(kind) :
                i \notin get_open_issues(RepoOf(i), kind, NoFault) =>
                    /\ Cardinality(About(out', i, Closed)) = 1
                    /\ \A k \in About(out', i, Closed) :
                        out'[k].subject =
                            (IF get_type_from_file(tree, i) = "pr" THEN "github.pr.closed"
                             ELSE "github.issue.closed")]_vars

\* C10 (envelope): every published event carries a top-level repository field
\* and a top-level number field holding a string.
C10_RepositoryAndNumber ==
    \A k \in 1..Len(out) :
        /\ "repository" \in DOMAIN out[k].data
        /\ "number" \in DOMAIN out[k].data
        /\ out[k].data.number.py = "str"

\* C6 (watermark monotonicity): no step removes a watermark, and a step that
\* writes one stores a timestamp not earlier than the one the file held, as an
\* instant and as the strings compare.
C6_WatermarkMonotone ==
    [][\A i \in Items : \A f \in Watermarks :
        tree[i][f] # NoStamp =>
            /\ tree'[i][f] # NoStamp
            /\ InstantOf(tree'[i][f]) >= InstantOf(tree[i][f])
            /\ ~StrGreater(tree[i][f], tree'[i][f])]_vars

\* An update / closed step that was not a dry run published an event about
\* widget#3 and none about widget#1, both active issues of one repository: the
\* repository was not skipped and widget#1 was found open without an update, so
\* its .last_checked existed and has just been overwritten with the step's time.
C6_Witness ==
    /\ phase = "comments"
    /\ {<<"acme/widget", 1>>, <<"acme/widget", 3>>} \subseteq active_issues
    /\ About(out, <<"acme/widget", 3>>, Updated \cup Closed) # {}
    /\ About(out, <<"acme/widget", 1>>, Updated \cup Closed) = {}
    /\ tree[<<"acme/widget", 1>>].last_checked = isoformat(clock)
    /\ clock > StartClock

\* C7 (discovery implies persistence): after a discovery step, every item the
\* step emitted a new event about has its directory, a .last_checked file and
\* a .type file holding the kind the event announced.
C7_DiscoveryPersists ==
    [][\A k \in 1..Len(out') :
        out'[k].subject \in New =>
            /\ tree'[out'[k].about].dir
            /\ tree'[out'[k].about].last_checked # NoStamp
            /\ tree'[out'[k].about].type = out'[k].data.type
            /\ out'[k].subject =
                    (IF tree'[out'[k].about].type = "pr" THEN "github.pr.new"
                     ELSE "github.issue.new")]_vars

\* the discovery step has just announced a new pull request and written its files
C7_Witness ==
    /\ phase = "scan"
    /\ \E k \in 1..Len(out) :
        /\ out[k].subject = "github.pr.new"
        /\ out[k].ok
        /\ tree[out[k].about].type = "pr"
        /\ tree[out[k].about].last_checked = isoformat(clock)

\* C8 (first observation): a new event is emitted about an item only by a step
\* that finds no directory for it and leaves one, at most once in the step, and
\* no step removes a directory (so at most one new event per item in a run); a
\* closed event is emitted only about an item whose directory exists.
C8_FirstObservation ==
    [][\A i \in Items :
        /\ About(out', i, New) # {} =>
                /\ ~tree[i].dir
                /\ tree'[i].dir
                /\ Cardinality(About(out', i, New)) = 1
        /\ tree[i].dir => tree'[i].dir
        /\ About(out', i, Closed) # {} => tree[i].dir]_vars

\* A discovery step announced widget#3 alone although widget#1, on an earlier
\* page of the same poll, is open too: widget#1 had its directory already.
C8_Witness ==
    /\ phase = "scan"
    /\ Len(out) = 1
    /\ out[1].subject = "github.issue.new"
    /\ out[1].about = <<"acme/widget", 3>>
    /\ gh[<<"acme/widget", 1>>].state = "open"
    /\ tree[<<"acme/widget", 1>>].dir

\* C9 (classification idempotence): no step changes a .type file that holds
\* "issue" or "pr".
C9_TypeWrittenOnce ==
    [][\A i \in Items :
        tree[i].type \in Kinds => tree'[i].type = tree[i].type]_vars

\* An active scan has just classified widget#2 as a pull request in a cycle
\* later than one whose comments step wrote its watermark, so from the cache.
C9_Witness ==
    /\ phase = "process"
    /\ <<"acme/widget", 2>> \in active_prs
    /\ tree[<<"acme/widget", 2>>].type = "pr"
    /\ tree[<<"acme/widget", 2>>].last_pr_comment_check # NoStamp

CommentNew == {"github.issue.comment.new", "github.pr.comment.new"}

\* the kind of item a comment subject is about
CheckType(subject) == IF subject = "github.issue.comment.new" THEN "issue" ELSE "pr"

\* C11 (strict comment filter): the comments step publishes a comment.new event
\* only for a comment whose updated_at is strictly later than the comment
\* watermark the item had when the step began (an equal instant yields no event).
C11_StrictCommentFilter ==
    [][(phase = "comments" /\ phase' = "idle") =>
        \A k \in 1..Len(out') :
            (out'[k].subject \in CommentNew /\ out'[k].ok) =>
                LET item_last_check ==
                        get_last_comment_check(tree, out'[k].about, CheckType(out'[k].subject))
                IN \/ item_last_check = NoStamp
                   \/ InstantOf(out'[k].data.updated_at) > InstantOf(item_last_check)]_vars

\* C11, second half: a comments step that is not a dry run leaves the comment
\* watermark of every active item it covers at the step's time.
C11_WatermarkAdvanced ==
    [][(phase = "comments" /\ phase' = "idle" /\ ~args.dry_run) =>
        /\ DoIssueComments =>
            \A i \in active_issues : tree'[i].last_issue_comment_check = isoformat(clock)
        /\ DoPrComments =>
            \A i \in active_prs : tree'[i].last_pr_comment_check = isoformat(clock)]_vars

\* the steps of run_monitoring_cycle, in the order the function takes them
CycleOrder ==
    { <<"idle", "discover">>, <<"discover", "scan">>, <<"scan", "process">>,
      <<"process", "comments">>, <<"comments", "idle">> }

\* C19 (order inside a cycle): a cycle takes its steps in one order, discovery,
\* active scan, update / closed, comments; new events are published only by
\* the discovery step, updated and closed events only by the update / closed
\* step, comment.new events only by the comments step. So in a cycle every new
\* event precedes every updated or closed event, and every comment.new event
\* follows the item-level events.
C19_OrderInCycle ==
    [][/\ phase' # phase => <<phase, phase'>> \in CycleOrder
       /\ \A k \in 1..Len(out') :
            /\ out'[k].subject \in New => (phase = "discover" /\ phase' = "scan")
            /\ out'[k].subject \in Updated \cup Closed =>
                    (phase = "process" /\ phase' = "comments")
            /\ out'[k].subject \in CommentNew => (phase = "comments" /\ phase' = "idle")
            /\ out'[k].subject \in New \cup Updated \cup Closed \cup CommentNew]_vars

\* In a cycle run with --no-active-only the update / closed step has just
\* published an updated event about an item that has no .active file: an item
\* the cycle's discovery may have announced a step earlier.
C19_Witness ==
    /\ phase = "comments"
    /\ ~args.active_only
    /\ \E k \in 1..Len(out) :
        /\ out[k].subject \in Updated
        /\ tree[out[k].about].dir
        /\ ~tree[out[k].about].active

\* C18 (cycles do not overlap): with --interval a cycle begins only when no
\* cycle is running: at the start, or when the previous cycle has returned.
\* When that cycle took the interval or longer the next one begins at once,
\* with no sleep; otherwise the loop sleeps for the interval less the time the
\* cycle took, and the next cycle begins when the sleep is over, not before.
C18_NoOverlap ==
    [][/\ (phase' = "discover" /\ phase # "discover") =>
            /\ phase \in {"idle", "sleeping"}
            /\ cycle_start' = clock
       /\ (phase = "idle" /\ phase' # "idle" /\ cycle_start # NotStarted) =>
            IF clock - cycle_start >= interval
            THEN phase' = "discover" /\ sleep_until' = sleep_until
            ELSE /\ phase' = "sleeping"
                 /\ sleep_until' - clock = interval - (clock - cycle_start)
       /\ (phase = "sleeping" /\ phase' # "sleeping") =>
            /\ phase' = "discover"
            /\ clock >= sleep_until]_vars

\* A cycle is beginning although the loop has never slept, and it is not the
\* first: the discovery of an earlier cycle wrote widget#1's .last_checked at
\* least an interval ago.
C18_Witness ==
    /\ phase = "discover"
    /\ cycle_start = clock
    /\ sleep_until = NotStarted
    /\ tree[<<"acme/widget", 1>>].last_checked # NoStamp
    /\ clock - InstantOf(tree[<<"acme/widget", 1>>].last_checked) >= interval

\* a cycle is beginning after a sleep that ended exactly one interval after the
\* previous cycle began
C18_SleptWitness ==
    /\ phase = "discover"
    /\ cycle_start = clock
    /\ sleep_until = clock
    /\ sleep_until = StartClock + interval

\* C21 (dry run): a step of a cycle run with --dry-run publishes no event and
\* leaves every file of the tree as it was.
C21_DryRunChangesNothing ==
    [][(phase # "idle" /\ phase' # phase /\ args.dry_run) =>
        /\ out' = <<>>
        /\ tree' = tree]_vars

\* C21 without the .type files: a step of a dry-run cycle publishes no event
\* and leaves the directories, the .active files and the watermarks as they were.
C21_DryRunKeepsWatermarks ==
    [][(phase # "idle" /\ phase' # phase /\ args.dry_run) =>
        /\ out' = <<>>
        /\ \A i \in Items :
            [tree'[i] EXCEPT !.type = ""] = [tree[i] EXCEPT !.type = ""]]_vars

----------------------------------------------------------------------------
(* Properties of the Monitor: polls that fail part-way *)

\* C26 (no false closure): the update / closed step publishes a closed event
\* only about an item that is not open on GitHub, whatever page of the poll
\* fails.
C26_NoFalseClosure ==
    [][\A fault \in PollFaults :
        UpdateClosedStep(fault) =>
            \A k \in 1..Len(out') :
                out'[k].subject \in Closed => gh[out'[k].about].state # "open"]_vars

\* C29 (watermark rewritten): in an update / closed step that is not a dry run,
\* every active item the step processes whose repository's poll returned an
\* item has .last_checked equal to the step's timestamp afterwards, whether an
\* event was published about it or not.
C29_WatermarkRewritten ==
    [][\A fault \in PollFaults :
        (UpdateClosedStep(fault) /\ ~args.dry_run) =>
            \A kind \in Kinds : \A i \in ProcessedAs(kind) :
                get_open_issues(RepoOf(i), kind, fault) # {} =>
                    get_last_checked(tree', i) = isoformat(clock)]_vars

\* The step has just gone over an open active item that had a watermark of an
\* earlier time and no update since: nothing was published, and the item's
\* .last_checked is the step's time.
C29_Witness ==
    /\ phase = "comments"
    /\ ~args.dry_run
    /\ out = <<>>
    /\ clock = MaxClock
    /\ \E i \in active_issues :
        /\ flags.monitor_issues
        /\ gh[i].state = "open"
        /\ gh[i].updated_at = 0
        /\ get_last_checked(tree, i) = isoformat(clock)

C32_ActiveOnlyGating ==
    [][(phase # "idle" /\ phase' # phase /\ args.active_only) =>
        /\ phase = "discover" =>
            \A k \in 1..Len(out') :
                out'[k].subject \in New /\ ~tree[out'[k].about].dir
        /\ phase = "scan" =>
            active_issues' \cup active_prs' =
                { i \in Items : /\ RepoOf(i) \in argv.repositories
                                /\ tree[i].dir /\ tree[i].active }
        /\ phase \in {"process", "comments"} =>
            /\ \A k \in 1..Len(out') : out'[k].about \in active_issues \cup active_prs
            /\ \A i \in Items \ (active_issues \cup active_prs) : tree'[i] = tree[i]]_vars

\* An update / closed step with --active-only has just published an updated
\* event about an active item and nothing about another item of the repository
\* that has a directory without .active, although that one is open and was
\* updated after its .last_checked.
C32_Witness ==
    /\ phase = "comments"
    /\ args.active_only
    /\ ~args.dry_run
    /\ \E i \in active_issues : \E j \in Items \ (active_issues \cup active_prs) :
        /\ About(out, i, Updated) # {}
        /\ tree[j].dir
        /\ ~tree[j].active
        /\ gh[j].state = "open"
        /\ get_last_checked(tree, j) # NoStamp
        /\ 2 * gh[j].updated_at > InstantOf(get_last_checked(tree, j))
        /\ \A k \in 1..Len(out) : out[k].about # j

\* C33 (a closure is reported once): acme/widget#3 is closed from the first run
\* on, so only the closed branch ever writes its .last_checked, and it writes it
\* with every closed event it publishes. A closed event about the item is
\* therefore a second one exactly when its .last_checked already exists: the
\* update / closed step publishes a closed event about it only while the file
\* is missing.
C33_ClosureReportedOnce ==
    [][(phase = "process" /\ phase' = "comments"
        /\ About(out', <<"acme/widget", 3>>, Closed) # {})
       => get_last_checked(tree, <<"acme/widget", 3>>) = NoStamp]_vars

\* C34 (one timestamp per cycle): in a run of a single cycle that started with
\* no timestamp on disk, all the timestamps the cycle has written (.last_checked
\* at discovery and in the update / closed step, the comment watermarks in the
\* comments step) are one and the same value.
C34_OneTimestampPerCycle ==
    \A i, j \in Items : \A f, g \in Watermarks :
        (tree[i][f] # NoStamp /\ tree[j][g] # NoStamp) => tree[i][f] = tree[j][g]

\* C35 (the cached kind is the real kind): whenever the active scan writes
\* .type for an item, the value is the item's kind on GitHub, whether the
\* probe answered or failed.
C35_CachedKindIsReal ==
    [][(phase = "scan" /\ phase' = "process") =>
        \A i \in Items :
            get_type_from_file(tree', i) # get_type_from_file(tree, i)
                => get_type_from_file(tree', i) = KindOf(i)]_vars

\* C38 (only the issues query is filtered): the discovery of a run with
\* --updated-since builds the issues query with filterBy.since and the
\* pull-request query without any filter clause.
C38_OnlyIssuesQueryFilters ==
    [][(phase = "discover" /\ phase' = "scan" /\ argv.updated_since # NoStamp) =>
        \A r \in Tracked :
            /\ flags.monitor_issues =>
                OpenItemsQuery(r, "issue", argv.updated_since).filter
                    = [since |-> argv.updated_since]
            /\ flags.monitor_prs =>
                OpenItemsQuery(r, "pr", argv.updated_since).filter = NoFilter]_vars

\* the publish_event calls of a sequence about item i, in order, without their
\* outcome
CallsAbout(events, i) ==
    LET about(e) == e.about = i
        calls == SelectSeq(events, about)
    IN [k \in 1..Len(calls) |-> [subject |-> calls[k].subject, data |-> calls[k].data]]

\* what the three polling steps do when no GraphQL call fails
CleanDiscovery ==
    IF flags.monitor_issues
    THEN monitor_repositories(tree, "issue", isoformat(clock), args.dry_run, NoFault,
                              Tracked, argv.updated_since)
    ELSE Skip(tree)

CleanUpdateClosed ==
    IF flags.monitor_issues /\ active_issues # {}
    THEN process_active_issues(tree, active_issues, "issue", isoformat(clock),
                               args.dry_run, NoFault)
    ELSE Skip(tree)

CleanComments(coms) ==
    IF DoIssueComments
    THEN monitor_comments(tree, active_issues, "issue", isoformat(clock), args.dry_run,
                          coms, "")
    ELSE Skip(tree)

\* a step left every repository but r as the fault-free step clean does
IsolatedTo(r, clean) ==
    \A i \in Items :
        RepoOf(i) # r =>
            /\ tree'[i] = clean.tree[i]
            /\ CallsAbout(out', i) = CallsAbout(clean.out, i)

\* C39 (failure isolation): with issues and their comments monitored over two
\* repositories, each of discovery, update / closed and comments, whatever
\* GraphQL call fails in it, treats every repository but at most one exactly
\* as it does when nothing fails, and hands over to the next step of the
\* cycle; the process does not exit.
C39_FailureIsolation ==
    [][/\ (phase = "discover" /\ phase' = "scan") =>
            /\ \E r \in Range(Repos) : IsolatedTo(r, CleanDiscovery)
            /\ exit_code' = NoExit
       /\ (phase = "process" /\ phase' = "comments") =>
            /\ \E r \in Range(Repos) : IsolatedTo(r, CleanUpdateClosed)
            /\ exit_code' = NoExit
       /\ (phase = "comments" /\ phase' = "idle") =>
            /\ \E r \in Range(Repos) : \E coms \in CommentsNow :
                    IsolatedTo(r, CleanComments(coms))
            /\ exit_code' = NoExit
       /\ phase = "discover" => phase' \in {"discover", "scan"}
       /\ phase = "process" => phase' \in {"process", "comments"}
       /\ phase = "comments" => phase' \in {"comments", "idle"}]_vars

\* Discovery has just run with the poll of acme/widget failing: the open issue
\* acme/widget#1 is still unknown and nothing was published about it, while
\* acme/gadget#4 was discovered, announced and written to disk.
C39_Witness ==
    /\ phase = "scan"
    /\ gh[<<"acme/widget", 1>>].state = "open"
    /\ ~tree[<<"acme/widget", 1>>].dir
    /\ About(out, <<"acme/widget", 1>>, New) = {}
    /\ tree[<<"acme/gadget", 4>>].dir
    /\ get_last_checked(tree, <<"acme/gadget", 4>>) # NoStamp
    /\ About(out, <<"acme/gadget", 4>>, New) # {}
    /\ exit_code = NoExit

\* C27 (comment completeness): in a comments step that is not a dry run and
\* whose queries succeed, every comment GitHub returns on an active open issue
\* that is later than the issue's own watermark (any comment, when the issue
\* has none) gets a comment.new event, whatever the watermarks of the other
\* items of the repository.
C27_CommentCompleteness ==
    [][\A coms \in CommentsNow :
        (CommentsStep(coms, "") /\ ~args.dry_run /\ DoIssueComments) =>
            \A i \in active_issues : \A c \in coms[i] :
                LET item_last_check == get_last_comment_check(tree, i, "issue")
                    window == get_repository_last_comment_check(tree, RepoOf(i), "issue")
                IN (/\ gh[i].state = "open"
                    /\ ServerReturns(i, "issue", window)
                    /\ \/ item_last_check = NoStamp
                       \/ InstantOf(GraphQLDateTime(c)) > InstantOf(item_last_check)) =>
                        \E k \in 1..Len(out') :
                            /\ out'[k].subject = "github.issue.comment.new"
                            /\ out'[k].about = i
                            /\ out'[k].data.id = c]_vars

----------------------------------------------------------------------------
(* Properties of main() *)

\* C22 (zero duration): when --interval is the string "0s", main() ends the
\* Monitor with exit code 1 at the parsing of the command line.
C22_ZeroDurationRejected ==
    [][(ParseArguments /\ argv.interval = <<[num |-> 0, unit |-> "s"]>>) =>
        /\ exit_code' = 1
        /\ phase' = "exited"]_vars

\* C23 (configuration errors): a Monitor that was given no repositories and
\* that finds none under the base path has exit code 1 when it has exited.
C23_NoRepositoriesExitsOne ==
    (phase = "exited" /\ argv.repositories = {} /\ get_tracked_repositories(tree) = {})
        => exit_code = 1

\* the two other configuration errors do exit with code 1
C23_ParseErrorAndMissingGhExitOne ==
    [][(ParseArguments /\ (~argv.gh_installed
                            \/ (argv.interval # <<>> /\ ~parse_duration(argv.interval).ok)))
        => exit_code' = 1]_vars

----------------------------------------------------------------------------
(* Properties of the Handler *)

\* C5 (nak on LLM failure): a delivery whose LLM child failed (non-zero exit,
\* or not spawned) ends in nak, and an ack is given only when the invocation
\* succeeded or was skipped.
C5_NakOnLlmFailure ==
    /\ handled.llm = "failed" => handled.verdict = "nak"
    /\ handled.verdict = "ack" => handled.llm # "failed"

\* the template files an event of a repository can resolve to, in search order
\* (the repository level of the model's templates belongs to acme/widget)
LevelsFor(repository) ==
    IF repository = "acme/widget" THEN <<"repo", "owner_default", "default">>
    ELSE <<"owner_default", "default">>

\* the first existing template of a repository's event is an empty file
FirstExistingIsEmpty(cfg, repository) ==
    /\ cfg.templates_dir
    /\ \E k \in 1..Len(LevelsFor(repository)) :
        /\ cfg.templates[LevelsFor(repository)[k]] = "empty"
        /\ \A j \in 1..(k - 1) : cfg.templates[LevelsFor(repository)[j]] = "missing"

\* a delivery of a well-formed envelope (repository and number present) to a
\* Handler that filters nothing and asks nothing
Unfiltered ==
    /\ handled.verdict # "none"
    /\ handled.msg.json
    /\ {"repository", "number"} \subseteq DOMAIN handled.msg.data
    /\ hcfg.repository_pattern = ""
    /\ hcfg.skip_user_pattern = ""
    /\ hcfg.auto_confirm

\* C12 (template skip sentinel): when the first existing template of the event
\* is empty, the Handler acks the event and spawns no LLM (so it uses no
\* template of a later level).
C12_SkipSentinel ==
    (Unfiltered /\ FirstExistingIsEmpty(hcfg, handled.msg.data.repository)) =>
        /\ handled.verdict = "ack"
        /\ handled.llm \notin {"succeeded", "failed"}

\* C12 for the item events (new, updated, closed): the sentinel as above
C12_SkipSentinelItemEvents ==
    (/\ Unfiltered
     /\ FirstExistingIsEmpty(hcfg, handled.msg.data.repository)
     /\ handled.msg.subject \notin ReadsComment) =>
        /\ handled.verdict = "ack"
        /\ handled.llm \in {"unavailable", "empty_template"}

\* the envelope has the fields message_handler requires of every event
WellFormed(m) == m.json /\ {"repository", "number"} \subseteq DOMAIN m.data

\* the repository of the event does not match --repositories
RepositoryFiltered(m) ==
    /\ hcfg.repository_pattern # ""
    /\ ~Search(hcfg.repository_pattern, m.data.repository)

\* the author of the event matches --skip-users
AuthorSkipped(m) ==
    /\ hcfg.skip_user_pattern # ""
    /\ "author" \in DOMAIN m.data
    /\ Search(hcfg.skip_user_pattern, m.data.author)

\* C13 (filters): a well-formed event whose repository does not match
\* --repositories, or whose author matches --skip-users, is acked and nothing
\* else happens: the tree is left as it was, nothing is redelivered, and the
\* outcome does not depend on the operator's key or on the LLM (no prompt is
\* shown, no LLM is run).
C13_Filters ==
    [][\A key \in Keys : \A llm_exit \in LlmExits :
        (/\ HandleStep(key, llm_exit)
         /\ WellFormed(Head(msgs))
         /\ RepositoryFiltered(Head(msgs)) \/ AuthorSkipped(Head(msgs))) =>
            /\ handled'.verdict = "ack"
            /\ handled'.llm = "filtered"
            /\ tree' = tree
            /\ inbox' = inbox]_vars

\* A Handler that prompts before each event and takes only repositories
\* matching "widget" has just dropped the new-issue event of acme/gadget#4:
\* acked, no directory made.
C13_Witness ==
    /\ ~hcfg.auto_confirm
    /\ hcfg.repository_pattern = "widget"
    /\ handled.msg.subject = "github.issue.new"
    /\ handled.msg.json
    /\ handled.msg.data.repository = "acme/gadget"
    /\ handled.verdict = "ack"
    /\ handled.llm = "filtered"
    /\ ~tree[<<"acme/gadget", 4>>].dir

\* C24 (unknown subject): a well-formed message on a subject the Handler has
\* no branch for, which the filters let through (and at which the operator
\* does not interrupt the Handler), is acked; no LLM is run, the
\* tree is as it was (no directory made, no .active removed) and nothing is
\* left for redelivery.
C24_UnknownSubjectAcked ==
    [][\A key \in Keys : \A llm_exit \in LlmExits :
        (/\ HandleStep(key, llm_exit)
         /\ hcfg.auto_confirm \/ key # "ctrl_c"
         /\ WellFormed(Head(msgs))
         /\ Head(msgs).subject \notin
               CreatesDirectory \cup RemovesActive \cup ReadsComment
                 \cup {"github.issue.updated", "github.pr.updated", "github.issue.process"}
         /\ ~RepositoryFiltered(Head(msgs))
         /\ hcfg.skip_user_pattern # "" =>
               ("author" \in DOMAIN Head(msgs).data /\ ~AuthorSkipped(Head(msgs)))) =>
            /\ handled'.verdict = "ack"
            /\ handled'.llm \in {"none", "declined"}
            /\ ~handled'.removed
            /\ tree' = tree
            /\ inbox' = inbox]_vars

\* A Handler with an LLM and a template for the repository, asking nothing,
\* has acked the github.issue.reopened message about the active item
\* acme/widget#2: no LLM was run and .active is still there.
C24_Witness ==
    /\ hcfg.auto_confirm
    /\ hcfg.claude_available
    /\ find_template(hcfg, "acme/widget") # ""
    /\ hcfg.templates[find_template(hcfg, "acme/widget")] = "text"
    /\ handled.msg.subject = "github.issue.reopened"
    /\ handled.verdict = "ack"
    /\ handled.llm = "none"
    /\ tree[<<"acme/widget", 2>>].active

\* C25 (comment events are accepted): a comment event built as the Monitor
\* builds it, which the Handler's filters let through, is not terminated: the
\* delivery ends acked, or nak'd.
C25_CommentEventsAccepted ==
    [][\A key \in Keys : \A llm_exit \in LlmExits :
        (/\ HandleStep(key, llm_exit)
         /\ \E i \in Items : Head(msgs) = Wire(CommentEvent(i, 0, KindOf(i)))
         /\ hcfg.repository_pattern = ""
         /\ hcfg.skip_user_pattern = "") =>
            handled'.verdict \in {"ack", "nak"}]_vars

\* C28 (events with no author): under --skip-users, a closed event as the
\* Monitor builds it (repository and number, no author), of a repository the
\* Handler takes, is acked, and not put back for redelivery.
C28_AuthorlessEventDisposed ==
    [][\A key \in Keys : \A llm_exit \in LlmExits :
        (/\ HandleStep(key, llm_exit)
         /\ Head(msgs).subject \in RemovesActive
         /\ WellFormed(Head(msgs))
         /\ "author" \notin DOMAIN Head(msgs).data
         /\ hcfg.skip_user_pattern # ""
         /\ ~RepositoryFiltered(Head(msgs))) =>
            /\ handled'.verdict = "ack"
            /\ inbox' = inbox]_vars

\* C31 (one disposition per message): every call of message_handler ends with
\* one of ack, nak, term, and the message is pending again exactly when it was
\* nak'd; except that a Ctrl-C at the confirmation prompt ends the call with no
\* disposition, the message staying with the consumer.
C31_OneDisposition ==
    [][\A key \in Keys : \A llm_exit \in LlmExits :
        HandleStep(key, llm_exit) =>
            IF ~hcfg.auto_confirm /\ key = "ctrl_c" /\ handled'.llm = "interrupted"
            THEN /\ handled'.verdict = "none"
                 /\ inbox' = inbox \o msgs
                 /\ tree' = tree
            ELSE /\ handled'.verdict \in {"ack", "nak", "term"}
                 /\ handled'.llm # "interrupted"
                 /\ inbox' = IF handled'.verdict = "nak" THEN Append(inbox, Head(msgs))
                              ELSE inbox]_vars

\* The operator has answered the prompt about a new-item event with 's': the
\* message was acked, nothing is pending, no directory was made.
C31_Witness ==
    /\ ~hcfg.auto_confirm
    /\ handled.msg.subject \in CreatesDirectory
    /\ handled.llm = "declined"
    /\ handled.verdict = "ack"
    /\ inbox = <<>>
    /\ msgs = <<>>
    /\ \A i \in Items : ~tree[i].dir

\* C36 (side effects by event): a delivery that reaches its handle_* coroutine
\* is acked and, for a new event, leaves the item directory existing; for a
\* closed event it leaves .active absent and the item directory as it was, and
\* handling the same event again in the tree it left changes nothing and is
\* acked again.
C36_SideEffectsByEvent ==
    [][\A key \in Keys : \A llm_exit \in LlmExits :
        (/\ HandleStep(key, llm_exit)
         /\ handled'.verdict = "ack"
         /\ handled'.llm \notin {"filtered", "declined"}
         /\ handled'.msg.subject \in CreatesDirectory \cup RemovesActive
         /\ ItemDir(handled'.msg.data) \in Items)
        => LET m == handled'.msg
               i == ItemDir(m.data)
               again == message_handler(hcfg, tree', m, key, llm_exit)
           IN /\ m.subject \in CreatesDirectory => tree'[i].dir
              /\ m.subject \in RemovesActive =>
                    /\ ~tree'[i].active
                    /\ tree'[i].dir = tree[i].dir
                    /\ again.tree = tree'
                    /\ again.call.verdict = "ack"
                    /\ ~again.call.removed]_vars

\* A closed event about acme/widget#2 has been handled while the item's
\* directory held no .active file (removed by an earlier closed event or never
\* created): nothing was removed and the message was acked.
C36_Witness ==
    /\ handled.msg.subject \in RemovesActive
    /\ handled.verdict = "ack"
    /\ handled.llm \notin {"filtered", "declined"}
    /\ ~handled.removed
    /\ tree[<<"acme/widget", 2>>].dir
    /\ ~tree[<<"acme/widget", 2>>].active
    /\ ItemDir(handled.msg.data) = <<"acme/widget", 2>>

\* the file at a level of the hierarchy for an event of a repository, "missing"
\* when the level has none
TemplateAt(cfg, repository, level) ==
    IF level = "repo" /\ repository # "acme/widget" THEN "missing"
    ELSE cfg.templates[level]

\* C37 (template resolution order): an event that reaches its handle_*
\* coroutine is acked, and what is done with the LLM is decided by the first
\* existing file in the order <root>/<owner>/<name>, <root>/<owner>/.default,
\* <root>/.default: an empty file there means nothing is run, a template there
\* is run, and with no file at any level, or no templates root, no LLM is
\* invoked.
C37_TemplateResolutionOrder ==
    [][\A key \in Keys : \A llm_exit \in LlmExits :
        (HandleStep(key, llm_exit) /\ handled'.msg.subject \in Updated)
        => LET repository == handled'.msg.data.repository
               at(level) == TemplateAt(hcfg, repository, level)
               first == IF ~hcfg.templates_dir THEN "missing"
                        ELSE IF at("repo") # "missing" THEN at("repo")
                        ELSE IF at("owner_default") # "missing" THEN at("owner_default")
                        ELSE at("default")
           IN /\ handled'.verdict = "ack"
              /\ first = "missing" => handled'.llm = "no_template"
              /\ first = "empty" => handled'.llm = "empty_template"
              /\ first = "text" =>
                    handled'.llm = (IF llm_exit = 0 THEN "succeeded" ELSE "failed")]_vars

\* An updated event about acme/gadget#4 was handled with an empty file at
\* <root>/acme/.default and a template at <root>/.default (and a template of
\* another repository at <root>/acme/widget): nothing was run.
C37_Witness ==
    /\ hcfg.templates_dir
    /\ hcfg.templates = [repo |-> "text", owner_default |-> "empty", default |-> "text"]
    /\ handled.msg.subject \in Updated
    /\ handled.msg.data.repository = "acme/gadget"
    /\ handled.verdict = "ack"
    /\ handled.llm = "empty_template"

\* C40 (the fetch loop survives fetch errors): a fetch that times out leaves
\* the loop fetching, with nothing logged; any other fetch error is logged and
\* leaves the loop asleep for one second, from which it only goes back to
\* fetching, and does so once the second has passed, unless it is interrupted;
\* the loop is left only by an interrupt (Ctrl-C while fetching or sleeping,
\* or at the confirmation prompt), and once it is left nothing is fetched or
\* handled any more.
C40_FetchLoopSurvivesErrors ==
    /\ [][/\ FetchTimeout => hloop' = Listening
          /\ FetchError =>
                /\ hloop'.at = "backoff"
                /\ hloop'.logged
                /\ hloop'.wake = clock + 2
          /\ (hloop.at = "backoff" /\ hloop'.at # "backoff") =>
                \/ hloop' = Listening /\ clock >= hloop.wake
                \/ Interrupt
          /\ (hloop.at # "closed" /\ hloop'.at = "closed") =>
                \/ Interrupt
                \/ handled'.llm = "interrupted"
          /\ hloop.at = "closed" => UNCHANGED <<hloop, msgs, tree>>]_vars
    /\ (hloop.at = "backoff") ~> (hloop.at \in {"fetch", "closed"})

\* A fetch has failed half a second ago: the error was logged, the loop is
\* asleep until a second after the failure and has not been left.
C40_Witness ==
    /\ hloop.at = "backoff"
    /\ hloop.logged
    /\ hloop.wake = clock + 1
    /\ clock = StartClock + 1

\* C14 (missing required field): a message whose envelope decodes and lacks
\* repository or number is terminated: not acked, not left for redelivery, and
\* the tree is as it was, with no LLM run.
C14_MissingFieldTerminates ==
    [][\A key \in Keys : \A llm_exit \in LlmExits :
        (/\ HandleStep(key, llm_exit)
         /\ Head(msgs).json
         /\ {"repository", "number"} \ DOMAIN Head(msgs).data # {}) =>
            /\ handled'.verdict = "term"
            /\ handled'.llm = "none"
            /\ tree' = tree
            /\ inbox' = inbox]_vars

\* the Monitor's issue-comment event, which has no number, has been terminated
\* and nothing is pending
C14_Witness ==
    /\ handled.msg.json
    /\ handled.msg.subject = "github.issue.comment.new"
    /\ "number" \notin DOMAIN handled.msg.data
    /\ handled.verdict = "term"
    /\ inbox = <<>>
    /\ msgs = <<>>

\* C15 (undecodable payload): a message whose payload is not JSON is nak'd: it
\* goes back to the consumer's pending messages, to be delivered again, and
\* the tree is as it was.
C15_UndecodableNak ==
    [][\A key \in Keys : \A llm_exit \in LlmExits :
        (HandleStep(key, llm_exit) /\ ~Head(msgs).json) =>
            /\ handled'.verdict = "nak"
            /\ handled'.llm = "none"
            /\ tree' = tree
            /\ inbox' = Append(inbox, Head(msgs))]_vars

\* the only message of the stream is not JSON, was nak'd, and has been
\* fetched again
C15_Witness ==
    /\ handled.msg = NotJson
    /\ handled.verdict = "nak"
    /\ inbox = <<>>
    /\ msgs = <<NotJson>>

\* C16 (malformed envelope): a message whose payload cannot be parsed is
\* terminated, so that it is not delivered again.
C16_MalformedTerminates ==
    (handled.verdict # "none" /\ ~handled.msg.json) => handled.verdict = "term"

\* the item an envelope is about
SameItem(m, n) ==
    /\ m.json /\ n.json
    /\ {"repository", "number"} \subseteq DOMAIN m.data
    /\ {"repository", "number"} \subseteq DOMAIN n.data
    /\ ItemDir(m.data) = ItemDir(n.data)

\* C17 (sequential processing): the messages of a fetched batch are handled
\* one per step in the order they arrived, each ending in ack, nak or term
\* (unless the operator's Ctrl-C at the prompt ends the Handler); a
\* new batch is fetched only when the previous one is used up, and it is the
\* oldest pending messages in their order; and when a closed event has been
\* handled its item has no .active file before the next message is begun.
C17_Sequential ==
    [][/\ msgs' # msgs =>
            \/ /\ msgs # <<>>
               /\ msgs' = Tail(msgs)
               /\ handled'.msg = Head(msgs)
               /\ handled'.verdict \in {"ack", "nak", "term"}
            \/ /\ msgs # <<>>
               /\ handled'.msg = Head(msgs)
               /\ handled'.llm = "interrupted"
               /\ hloop'.at = "closed"
            \/ /\ msgs = <<>>
               /\ Len(msgs') <= Len(inbox)
               /\ msgs' = SubSeq(inbox, 1, Len(msgs'))
       /\ \A key \in Keys : \A llm_exit \in LlmExits :
            (/\ HandleStep(key, llm_exit)
             /\ Head(msgs).subject \in RemovesActive
             /\ handled'.llm \notin {"none", "filtered", "declined", "interrupted"}) =>
                /\ handled'.removed = tree[ItemDir(Head(msgs).data)].active
                /\ ~tree'[ItemDir(Head(msgs).data)].active]_vars

\* The closed event of an item has just been handled and its .active file
\* removed, while the next message of the same batch, about the same item, is
\* still to be handled.
C17_Witness ==
    /\ handled.msg.subject \in RemovesActive
    /\ handled.removed
    /\ msgs # <<>>
    /\ SameItem(handled.msg, Head(msgs))
    /\ Head(msgs).subject \notin RemovesActive
    /\ ~tree[ItemDir(handled.msg.data)].active

----------------------------------------------------------------------------
(* Properties of the Monitor and the Handler on one base directory *)

\* the files only the Monitor writes
MonitorFiles == {"type"} \cup Watermarks

\* C20 (disjoint writes): a step of the Monitor leaves every .active file as it
\* is (it writes only .type and the three watermark files, creating the item
\* directory for them); a delivery handled by the Handler leaves .type and the
\* watermark files as they are and creates no .active file (it only creates
\* item directories and deletes .active); neither removes an item directory.
C20_DisjointWrites ==
    [][/\ phase' # phase =>
            \A i \in Items :
                /\ tree'[i].active = tree[i].active
                /\ tree[i].dir => tree'[i].dir
       /\ \A key \in Keys : \A llm_exit \in LlmExits :
            HandleStep(key, llm_exit) =>
                \A i \in Items :
                    /\ \A f \in MonitorFiles : tree'[i][f] = tree[i][f]
                    /\ tree'[i].active => tree[i].active
                    /\ tree[i].dir => tree'[i].dir]_vars

\* Both have written in the directory of widget#2: the Monitor its .type, its
\* .last_checked and its comment watermark while the item was active, the
\* Handler has just removed .active on the closed event.
C20_Witness ==
    /\ handled.removed
    /\ handled.msg.subject = "github.pr.closed"
    /\ ~tree[PipelineItem].active
    /\ tree[PipelineItem].type = "pr"
    /\ tree[PipelineItem].last_checked # NoStamp
    /\ tree[PipelineItem].last_pr_comment_check # NoStamp

====
